---- MODULE Spec2Model ----
(***************************************************************************)
(* Model of the provider-scraper documentation pipeline:                   *)
(*   scraper/storage.py    DocsArchive (cache.json, docs/ staging, docs.zip)*)
(*   scraper/markdown.py   chunk_markdown                                   *)
(*   scraper/base.py       BaseScraper.scrape_docs                          *)
(*   scraper/discovery.py  discover_sitemap                                 *)
(* Text is a sequence of one-character strings; the characters used are     *)
(* ASCII, so the UTF-8 byte length of a text is its length.                 *)
(***************************************************************************)
EXTENDS Integers, Sequences, FiniteSets, TLC

VARIABLES
    \* ---- DocsArchive: the output directory on disk ----
    cacheJson,   \* cache.json: Absent, or url -> entry
    cacheCorrupt,\* cache.json exists and its text cannot be parsed
    zip,         \* docs.zip: Absent, or filename -> bytes
    zipCorrupt,  \* docs.zip exists and is not a readable zip file
    docs,        \* docs/ staging directory: Absent, or filename -> bytes
    \* ---- DocsArchive: the live instance ----
    alive,       \* a DocsArchive instance exists in the running process
    cache,       \* self._cache of that instance: url -> entry
    \* ---- history of the calls made on the archive ----
    lastOp,      \* name of the last call made on the output directory
    lastWrite,   \* arguments of the last write, while only finalize followed it
    runWrites,   \* url -> [content, etag] of the writes completed since the
                 \* last construction or finalize of the running process
    crashed,     \* runWrites of the process that stopped before finalize
    origin,      \* content_hash -> the content a write computed it from
    \* ---- chunk_markdown: one call ----
    doc,         \* the MarkdownDoc passed in
    max_size,    \* the byte budget passed in
    chunks,      \* the list returned
    chunkPc,     \* "call" before the call, "done" after it
    \* ---- BaseScraper.scrape_docs: the call in progress ----
    scrapePc,    \* "idle", "loop", "returned", or the error raised
    urls,        \* the list discover_doc_urls returned
    idx,         \* position of the for loop in urls (1-based)
    written_count,
    error_count,
    outcomes,    \* what happened at each URL handled so far
    writeCalls,  \* number of archive.write calls made by this call
    nScrapes,    \* number of scrape_docs calls started so far
    lastMessage, \* result.error_message of the fetch made last by this call
    \* ---- discover_sitemap: the call in progress ----
    discPc,      \* "idle", "candidates", "children", "returned", "raised"
    pathIdx,     \* position of the for loop in SITEMAP_PATHS (1-based)
    childUrls,   \* the child sitemap URLs of the index found
    childIdx,    \* position of the for loop in childUrls (1-based)
    all_urls,    \* the URLs collected from the children so far
    discResult,  \* the value returned: None, or a list of URLs
    candidateLog,\* the responses of the candidate fetches made, in order
    childLog,    \* the responses of the child sitemap fetches made, in order
    firstList,   \* the first non-empty URL list parsed from a candidate
    pathLog,     \* the candidate paths fetched, in order
    \* ---- BaseScraper._filter_doc_urls: one call ----
    docs_base_url,    \* class attribute: None or a URL
    provider_website, \* class attribute: a URL
    filterIn,    \* the list passed in
    filterOut,   \* the list returned
    filterPc,    \* "idle", "call" before the call, "done" after it
    \* ---- BaseScraper.run: the call in progress ----
    runPc,       \* "idle", "offerings", "sitemap", "crawl", "scraping",
                 \* "finalize", "returned", "raised"
    skip_offerings,
    skip_docs,
    run_keep_local, \* the keep_local argument of run
    csv_path,    \* TRUE once offerings.csv is written (None before)
    docs_count,
    runError,    \* the exception that left run: "none", "offerings",
                 \* "DiscoveryError", "DocsScrapeError"
    discoveryCalls, \* the discovery functions called, in order, with arguments
    sitemapResult,  \* what discover_sitemap gave to discover_doc_urls
    finalizeCalls,  \* the keep_local argument of each archive.finalize call
    \* ---- parse_sitemap_xml: one call ----
    xml_content, \* the text passed in, as a sequence of tags and characters
    parseResult, \* the list returned, or the exception raised
    parsePc,     \* "idle", "call" before the call, "done" after it
    \* ---- DocsArchive._safe_filename: one call ----
    safeUrl,     \* the url passed in
    safeTopic,   \* the topic passed in
    safeName,    \* the file name returned
    safePc       \* "idle", "call" before the call, "done" after it

archiveVars == <<cacheJson, cacheCorrupt, zip, zipCorrupt, docs, alive, cache, lastOp, lastWrite, runWrites, crashed, origin>>

chunkVars == <<doc, max_size, chunks, chunkPc>>

scrapeVars == <<scrapePc, urls, idx, written_count, error_count, outcomes, writeCalls, nScrapes, lastMessage>>

discVars == <<discPc, pathIdx, childUrls, childIdx, all_urls, discResult, candidateLog, childLog, firstList, pathLog>>

filterVars == <<docs_base_url, provider_website, filterIn, filterOut, filterPc>>

runVars == <<runPc, skip_offerings, skip_docs, run_keep_local, csv_path, docs_count, runError, discoveryCalls, sitemapResult, finalizeCalls>>

parseVars == <<xml_content, parseResult, parsePc>>

safeVars == <<safeUrl, safeTopic, safeName, safePc>>

vars == <<archiveVars, chunkVars, scrapeVars, discVars, filterVars, runVars, parseVars, safeVars>>

----------------------------------------------------------------------------
(* Text helpers (Python str methods and the re calls the code uses)         *)


Lower == {"a","b","c","d","e","f","g","h","i","j","k","l","m",
          "n","o","p","q","r","s","t","u","v","w","x","y","z"}
Upper == {"A","B","C","D","E","F","G","H","I","J","K","L","M",
          "N","O","P","Q","R","S","T","U","V","W","X","Y","Z"}
Digit == {"0","1","2","3","4","5","6","7","8","9"}

\* the character class [a-zA-Z0-9_-] of _safe_filename
SafeChars == Lower \cup Upper \cup Digit \cup {"_", "-"}

\* str.rstrip(ch)
RECURSIVE RStrip(_, _)
RStrip(s, ch) ==
    IF s # <<>> /\ s[Len(s)] = ch THEN RStrip(SubSeq(s, 1, Len(s) - 1), ch) ELSE s

\* str.lstrip(ch)
RECURSIVE LStrip(_, _)
LStrip(s, ch) ==
    IF s # <<>> /\ s[1] = ch THEN LStrip(Tail(s), ch) ELSE s

\* str.strip(ch)
Strip(s, ch) == LStrip(RStrip(s, ch), ch)

\* str.split(ch): the pieces between the occurrences of ch, empty ones kept
RECURSIVE SplitAcc(_, _, _)
SplitAcc(s, ch, cur) ==
    IF s = <<>> THEN <<cur>>
    ELSE IF s[1] = ch THEN <<cur>> \o SplitAcc(Tail(s), ch, <<>>)
    ELSE SplitAcc(Tail(s), ch, Append(cur, s[1]))

Split(s, ch) == SplitAcc(s, ch, <<>>)

\* re.sub(r"[^a-zA-Z0-9_-]", "-", s)
ReplaceUnsafe(s) == [i \in 1..Len(s) |-> IF s[i] \in SafeChars THEN s[i] ELSE "-"]

\* re.sub(r"-+", "-", s)
RECURSIVE CollapseHyphens(_)
CollapseHyphens(s) ==
    IF Len(s) < 2 THEN s
    ELSE IF s[1] = "-" /\ s[2] = "-" THEN CollapseHyphens(Tail(s))
    ELSE <<s[1]>> \o CollapseHyphens(Tail(s))

DotMd == <<".", "m", "d">>

\* DocsArchive._safe_filename
SafeFilename(url, topic) ==
    LET parts == Split(RStrip(url, "/"), "/")
        base == IF topic # <<>> THEN topic
                ELSE IF Len(parts) > 3 THEN parts[Len(parts)]
                ELSE <<"i", "n", "d", "e", "x">>
        safe == Strip(CollapseHyphens(ReplaceUnsafe(base)), "-")
    IN  (IF safe = <<>> THEN <<"p", "a", "g", "e">> ELSE safe) \o DotMd

----------------------------------------------------------------------------
(* DocsArchive                                                              *)

\* the inputs the archive is exercised with
UrlA == <<"s", ":", "/", "/", "d", "/", "a">>
UrlB == <<"s", ":", "/", "/", "d", "/", "b">>
Urls == {UrlA, UrlB}
Topics == {<<>>, <<"a">>}
Contents == {<<"x">>, <<"x", "\r">>}

\* an ETag of the fetch, or None
NoEtag == [some |-> FALSE, val |-> ""]
Etag(s) == [some |-> TRUE, val |-> s]
\* the ETags a fetch may carry, and those the modelled writes store
Etags == {NoEtag, Etag(""), Etag("E1"), Etag("E2")}
WriteEtags == {NoEtag, Etag("E1")}

\* Python truthiness of "etag": None and "" are falsy
Truthy(e) == e.some /\ e.val # ""

\* an optional text: the result of read()
NoText == [found |-> FALSE, text |-> <<>>]
Some(c) == [found |-> TRUE, text |-> c]

EmptyMap == [k \in {} |-> NoText]
\* an assignment that drops every other key of the mapping
PutAlone(m, k, v) == [x \in {k} |-> v]

\* m[k] = v on a dict
Put(m, k, v) == [x \in (DOMAIN m) \cup {k} |-> IF x = k THEN v ELSE m[x]]

\* the characters of the modelled contents, and the code of each
ContentChars == <<"x", "y", "\r", "\n", " ">>
CharCode(ch) == CHOOSE i \in 1..Len(ContentChars) : ContentChars[i] = ch

\* DocsArchive._content_hash: the first 16 hex digits of SHA-256, taken as
\* collision-free (the digest of a text is the sequence of its character codes)
ContentHash(content) == [i \in 1..Len(content) |-> CharCode(content[i])]

\* CacheEntry (crawled_at is a timestamp no operation reads; left out)
CacheEntry(filename, etag, content_hash) ==
    [filename |-> filename, etag |-> etag, content_hash |-> content_hash]

\* Path.read_text(): text mode with universal newlines, "\r\n" and "\r" read as "\n"
RECURSIVE ReadText(_)
ReadText(bytes) ==
    IF bytes = <<>> THEN <<>>
    ELSE IF bytes[1] = "\r"
         THEN <<"\n">> \o ReadText(IF Len(bytes) > 1 /\ bytes[2] = "\n"
                                    THEN SubSeq(bytes, 3, Len(bytes))
                                    ELSE Tail(bytes))
    ELSE <<bytes[1]>> \o ReadText(Tail(bytes))

\* Path.write_text(): text mode on POSIX writes the characters as they are
WriteText(content) == content

\* zf.read(filename).decode("utf-8"): the stored bytes, no newline translation
DecodeBytes(bytes) == bytes

NoDir == [exists |-> FALSE, files |-> EmptyMap]
Dir(files) == [exists |-> TRUE, files |-> files]

\* DocsArchive._load_cache: {} when cache.json does not exist
LoadCache(file) == IF file.exists THEN file.files ELSE EmptyMap

\* DocsArchive._save_cache: the whole in-memory cache replaces cache.json
SaveCache(c) == Dir(c)

\* DocsArchive._unpack_zip: the staging directory after construction
UnpackZip(zipFile, dir) ==
    IF ~zipFile.exists THEN (IF dir.exists THEN dir ELSE Dir(EmptyMap))
    ELSE Dir(zipFile.files)

\* DocsArchive._unpack_zip on a docs.zip that raises BadZipFile: docs/ was
\* removed and made anew, and stays empty
UnpackBadZip == Dir(EmptyMap)

\* has_changed that never trusts the ETag and always compares the hash
HasChangedHashOnly(url, etag, content) ==
    IF url \notin DOMAIN cache THEN TRUE
    ELSE ContentHash(content) # cache[url].content_hash

\* has_changed that compares ETags as soon as one side carries one
HasChangedEitherEtag(url, etag, content) ==
    IF url \notin DOMAIN cache THEN TRUE
    ELSE LET entry == cache[url]
         IN  IF Truthy(etag) \/ Truthy(entry.etag)
             THEN etag # entry.etag
             ELSE ContentHash(content) # entry.content_hash

\* DocsArchive.has_changed
HasChanged(url, etag, content) ==
    IF url \notin DOMAIN cache THEN TRUE
    ELSE LET entry == cache[url]
         IN  IF Truthy(etag) /\ Truthy(entry.etag)
             THEN etag # entry.etag
             ELSE ContentHash(content) # entry.content_hash

\* DocsArchive.read
Read(url) ==
    IF url \notin DOMAIN cache THEN NoText
    ELSE LET filename == cache[url].filename
         IN  IF docs.exists /\ filename \in DOMAIN docs.files
             THEN Some(ReadText(docs.files[filename]))
             ELSE IF ~zip.exists THEN NoText
             ELSE IF zipCorrupt THEN NoText
             ELSE IF filename \in DOMAIN zip.files
                  THEN Some(DecodeBytes(zip.files[filename]))
                  ELSE NoText

\* DocsArchive.read raises: the file is not staged and docs.zip cannot be
\* opened (BadZipFile is logged and raised again); Read gives no content then
ReadRaises(url) ==
    /\ url \in DOMAIN cache
    /\ ~(docs.exists /\ cache[url].filename \in DOMAIN docs.files)
    /\ zip.exists
    /\ zipCorrupt

NoWrite == [done |-> FALSE, url |-> <<>>, content |-> <<>>, etag |-> NoEtag]
WriteArgs(url, content, etag) ==
    [done |-> TRUE, url |-> url, content |-> content, etag |-> etag]

ArchiveInit ==
    /\ cacheJson = NoDir
    /\ cacheCorrupt = FALSE
    /\ zipCorrupt = FALSE
    /\ zip = NoDir
    /\ docs = NoDir
    /\ alive = FALSE
    /\ cache = EmptyMap
    /\ lastOp = "none"
    /\ lastWrite = NoWrite
    /\ runWrites = EmptyMap
    /\ crashed = EmptyMap
    /\ origin = EmptyMap

\* __init__ that starts from an empty cache when cache.json cannot be parsed
ConstructResetting ==
    /\ ~alive
    /\ alive' = TRUE
    /\ cache' = IF cacheCorrupt THEN EmptyMap ELSE LoadCache(cacheJson)
    /\ docs' = IF zipCorrupt THEN UnpackBadZip ELSE UnpackZip(zip, docs)
    /\ lastOp' = "construct"
    /\ lastWrite' = NoWrite
    /\ runWrites' = EmptyMap
    /\ UNCHANGED <<cacheJson, cacheCorrupt, zip, zipCorrupt, crashed, origin>>

\* DocsArchive.__init__ in a new process on the output directory; _load_cache
\* raises on an unparseable cache.json, before _unpack_zip is reached
Construct ==
    /\ ~alive
    /\ IF cacheCorrupt
       THEN /\ lastOp' = "construct_raised"
            /\ UNCHANGED <<alive, cache, docs>>
       ELSE /\ alive' = TRUE
            /\ cache' = LoadCache(cacheJson)
            /\ docs' = IF zipCorrupt THEN UnpackBadZip ELSE UnpackZip(zip, docs)
            /\ lastOp' = "construct"
    /\ lastWrite' = NoWrite
    /\ runWrites' = EmptyMap
    /\ UNCHANGED <<cacheJson, cacheCorrupt, zip, zipCorrupt, crashed, origin>>

\* cache.json is left unparseable: a process killed inside _save_cache, or an
\* edit from outside
CorruptCacheJson ==
    /\ cacheJson.exists
    /\ ~cacheCorrupt
    /\ cacheCorrupt' = TRUE
    /\ UNCHANGED <<cacheJson, zip, zipCorrupt, docs, alive, cache, lastOp, lastWrite, runWrites, crashed, origin>>

\* DocsArchive.write: the entry is put in self._cache, then the file is
\* stored, then cache.json is saved; write_text raises when docs/ is gone
Write(url, content, topic, etag) ==
    /\ alive
    /\ LET filename == SafeFilename(url, topic)
           entry == CacheEntry(filename, etag, ContentHash(content))
       IN  /\ cache' = Put(cache, url, entry)
           /\ IF docs.exists
              THEN /\ docs' = Dir(Put(docs.files, filename, WriteText(content)))
                   /\ cacheJson' = SaveCache(cache')
                   /\ cacheCorrupt' = FALSE
                   /\ lastOp' = "write"
                   /\ lastWrite' = WriteArgs(url, content, etag)
                   /\ runWrites' = Put(runWrites, url, [content |-> content, etag |-> etag])
              ELSE /\ lastOp' = "write_raised"
                   /\ lastWrite' = NoWrite
                   /\ UNCHANGED <<docs, cacheJson, cacheCorrupt, runWrites>>
    /\ crashed' = EmptyMap
    /\ origin' = Put(origin, ContentHash(content), content)
    /\ UNCHANGED <<zip, zipCorrupt, alive>>

\* a has_changed call on the instance: it reads self._cache and assigns nothing
HasChangedCall(url, etag, content) ==
    /\ alive
    /\ HasChanged(url, etag, content) \in BOOLEAN
    /\ lastOp' = "has_changed"
    /\ UNCHANGED <<cacheJson, cacheCorrupt, zip, zipCorrupt, docs, alive, cache, lastWrite, runWrites, crashed, origin>>

\* a read call on the instance: it reads the staged file or the zip member and
\* assigns nothing
ReadCall(url) ==
    /\ alive
    /\ Read(url) \in {NoText} \cup {Some(ReadText(c)) : c \in Contents} \cup {Some(c) : c \in Contents}
    /\ lastOp' = "read"
    /\ UNCHANGED <<cacheJson, cacheCorrupt, zip, zipCorrupt, docs, alive, cache, lastWrite, runWrites, crashed, origin>>

\* docs.zip is left unreadable between two runs: a truncated copy, or an edit
\* from outside
CorruptZip ==
    /\ ~alive
    /\ zip.exists
    /\ ~zipCorrupt
    /\ zipCorrupt' = TRUE
    /\ lastOp' = "corrupt_zip"
    /\ UNCHANGED <<cacheJson, cacheCorrupt, zip, docs, alive, cache, lastWrite, runWrites, crashed, origin>>

\* the process is killed inside write, after write_text stored the file and
\* before _save_cache persisted the entry
WriteInterrupted(url, content, topic, etag) ==
    /\ alive
    /\ docs.exists
    /\ docs' = Dir(Put(docs.files, SafeFilename(url, topic), WriteText(content)))
    /\ alive' = FALSE
    /\ cache' = EmptyMap
    /\ lastOp' = "write_interrupted"
    /\ lastWrite' = NoWrite
    /\ crashed' = runWrites
    /\ runWrites' = EmptyMap
    /\ origin' = Put(origin, ContentHash(content), content)
    /\ UNCHANGED <<cacheJson, cacheCorrupt, zip, zipCorrupt>>

\* the early return of finalize taken only when docs/ is absent
NothingToFinalizeAbsentOnly(dir) == ~dir.exists

\* the early returns of finalize: docs/ is absent, or holds nothing
NothingToFinalize(dir) == ~dir.exists \/ DOMAIN dir.files = {}

\* DocsArchive.finalize
Finalize(keep_local) ==
    /\ alive
    /\ IF NothingToFinalize(docs)
       THEN UNCHANGED <<zip, zipCorrupt, docs>>
       ELSE /\ zip' = Dir(docs.files)
            /\ zipCorrupt' = FALSE
            /\ docs' = IF keep_local THEN docs ELSE NoDir
    /\ lastOp' = IF keep_local THEN "finalize_keep" ELSE "finalize"
    /\ runWrites' = EmptyMap
    /\ crashed' = EmptyMap
    /\ UNCHANGED <<cacheJson, cacheCorrupt, alive, cache, lastWrite, origin>>

\* the process ends (normally, or by a crash) and its instance is gone
Stop ==
    /\ alive
    /\ alive' = FALSE
    /\ cache' = EmptyMap
    /\ lastOp' = "stop"
    /\ lastWrite' = NoWrite
    /\ crashed' = runWrites
    /\ runWrites' = EmptyMap
    /\ UNCHANGED <<cacheJson, cacheCorrupt, zip, zipCorrupt, docs, origin>>


----------------------------------------------------------------------------
(* the fixed text of the frontmatter block, around the four fields          *)
FM1 == <<"-", "-", "-", "\n", "s", "o", "u", "r", "c", "e", ":", " ">>
FM2 == <<"\n", "s", "c", "r", "a", "p", "e", "d", ":", " ">>
FM3 == <<"\n", "p", "r", "o", "v", "i", "d", "e", "r", ":", " ">>
FM4 == <<"\n", "t", "o", "p", "i", "c", ":", " ">>
FM5 == <<"\n", "-", "-", "-", "\n", "\n">>
----------------------------------------------------------------------------
(* chunk_markdown                                                           *)

\* str.join: the pieces with sep between them
RECURSIVE Join(_, _)
Join(pieces, sep) ==
    IF pieces = <<>> THEN <<>>
    ELSE IF Len(pieces) = 1 THEN pieces[1]
    ELSE pieces[1] \o sep \o Join(Tail(pieces), sep)

\* s has the text pat at position i
HasAt(s, i, pat) ==
    /\ i + Len(pat) - 1 <= Len(s)
    /\ \A k \in 1..Len(pat) : s[i + k - 1] = pat[k]

\* str.split(sep) for a separator of one or more characters: leftmost
\* non-overlapping occurrences, empty pieces kept
RECURSIVE SplitOn(_, _, _, _)
SplitOn(s, sep, i, start) ==
    IF i > Len(s) THEN <<SubSeq(s, start, Len(s))>>
    ELSE IF HasAt(s, i, sep)
         THEN <<SubSeq(s, start, i - 1)>> \o SplitOn(s, sep, i + Len(sep), i + Len(sep))
         ELSE SplitOn(s, sep, i + 1, start)

ParagraphSep == <<"\n", "\n">>
HeadingStart == <<"\n", "#", "#", " ">>

\* the end of a match of r"\n## [^\n]+\n" starting at position i of s, else 0:
\* the heading text is not empty and runs to the first newline after it
HeadingEnd(s, i) ==
    IF /\ HasAt(s, i, HeadingStart)
       /\ i + 4 <= Len(s)
       /\ s[i + 4] # "\n"
       /\ \E j \in (i + 5)..Len(s) : s[j] = "\n"
    THEN CHOOSE j \in (i + 5)..Len(s) :
            /\ s[j] = "\n"
            /\ \A k \in (i + 5)..(j - 1) : s[k] # "\n"
    ELSE 0

\* re.split(r"(\n## [^\n]+\n)", s): the text between the matches and, because
\* of the capturing group, the matched heading lines themselves
RECURSIVE SplitHeadings(_, _, _)
SplitHeadings(s, i, start) ==
    IF i > Len(s) THEN <<SubSeq(s, start, Len(s))>>
    ELSE LET j == HeadingEnd(s, i)
         IN  IF j > 0
             THEN <<SubSeq(s, start, i - 1), SubSeq(s, i, j)>> \o SplitHeadings(s, j + 1, j + 1)
             ELSE SplitHeadings(s, i + 1, start)

DigitChars == <<"0", "1", "2", "3", "4", "5", "6", "7", "8", "9">>

\* str(n) for n >= 0
RECURSIVE Decimal(_)
Decimal(n) ==
    IF n < 10 THEN <<DigitChars[n + 1]>> ELSE Decimal(n \div 10) \o <<DigitChars[(n % 10) + 1]>>

\* f"{doc.topic} (Part {chunk_num})"
PartTopic(topic, chunk_num) ==
    topic \o <<" ", "(", "P", "a", "r", "t", " ">> \o Decimal(chunk_num) \o <<")">>

\* format_markdown_with_frontmatter
FormatMarkdownWithFrontmatter(d) ==
    FM1 \o d.source_url \o FM2
        \o d.scraped_at \o FM3
        \o d.provider \o FM4
        \o d.topic \o FM5
        \o d.content

\* len(s.encode("utf-8")) for the ASCII texts of the model
ByteLen(s) == Len(s)

\* MarkdownDoc
MarkdownDoc(content, source_url, provider, topic, scraped_at) ==
    [content |-> content, source_url |-> source_url, provider |-> provider,
     topic |-> topic, scraped_at |-> scraped_at]

\* the chunk appended when current_content is flushed
PartDoc(d, content, topic) == MarkdownDoc(content, d.source_url, d.provider, topic, d.scraped_at)

\* the loop state of chunk_markdown
LoopState(cs, current_content, current_size, chunk_num) ==
    [chunks |-> cs, current_content |-> current_content,
     current_size |-> current_size, chunk_num |-> chunk_num]

\* "if current_content:" flush it as the next part, joined with sep
Flush(d, st, sep) ==
    IF st.current_content # <<>>
    THEN LoopState(Append(st.chunks,
                          PartDoc(d, Join(st.current_content, sep), PartTopic(d.topic, st.chunk_num))),
                   <<>>, 0, st.chunk_num + 1)
    ELSE st

\* the loop over the paragraphs of a section that is too big on its own
RECURSIVE ParagraphLoop(_, _, _, _, _)
ParagraphLoop(d, paragraphs, st, frontmatter_size, max) ==
    IF paragraphs = <<>> THEN st
    ELSE LET para == paragraphs[1]
             para_size == ByteLen(para)
             flushed == IF st.current_size + para_size + frontmatter_size > max
                        THEN Flush(d, st, ParagraphSep)
                        ELSE st
         IN  ParagraphLoop(d, Tail(paragraphs),
                           LoopState(flushed.chunks, Append(flushed.current_content, para),
                                     flushed.current_size + para_size, flushed.chunk_num),
                           frontmatter_size, max)

\* the loop over the sections
RECURSIVE SectionLoop(_, _, _, _, _)
SectionLoop(d, sections, st, frontmatter_size, max) ==
    IF sections = <<>> THEN st
    ELSE LET section == sections[1]
             section_size == ByteLen(section)
             next ==
                IF section_size + frontmatter_size > max
                THEN ParagraphLoop(d, SplitOn(section, ParagraphSep, 1, 1),
                                   Flush(d, st, <<>>), frontmatter_size, max)
                ELSE IF st.current_size + section_size + frontmatter_size > max
                THEN LET flushed == Flush(d, st, <<>>)
                     IN  LoopState(flushed.chunks, <<section>>, section_size, flushed.chunk_num)
                ELSE LoopState(st.chunks, Append(st.current_content, section),
                               st.current_size + section_size, st.chunk_num)
         IN  SectionLoop(d, Tail(sections), next, frontmatter_size, max)

\* chunk_markdown
ChunkMarkdownOf(d, max) ==
    IF ByteLen(FormatMarkdownWithFrontmatter(d)) <= max THEN <<d>>
    ELSE LET sections == SplitHeadings(d.content, 1, 1)
             frontmatter_size == ByteLen(FormatMarkdownWithFrontmatter(d)) - ByteLen(d.content)
             st == SectionLoop(d, sections, LoopState(<<>>, <<>>, 0, 1), frontmatter_size, max)
         IN  IF st.current_content # <<>>
             THEN Append(st.chunks,
                         PartDoc(d, Join(st.current_content, <<>>),
                                 IF st.chunk_num > 1 THEN PartTopic(d.topic, st.chunk_num)
                                 ELSE d.topic))
             ELSE st.chunks

\* the pieces the modelled contents are made of: a short and a long paragraph,
\* each with the blank line that ends it, and a level-2 heading line
Pieces == {<<"x", "x", "\n", "\n">>,
           <<"x", "x", "x", "x", "\n", "\n">>,
           <<"\n", "#", "#", " ", "h", "\n">>}
MaxPieces == 6

RECURSIVE Flatten(_)
Flatten(ps) == IF ps = <<>> THEN <<>> ELSE ps[1] \o Flatten(Tail(ps))

ChunkContents == {Flatten(ps) : ps \in UNION {[1..n -> Pieces] : n \in 0..MaxPieces}}

\* the documents of the model: one-character url, provider and topic
DocOf(content) ==
    MarkdownDoc(content, <<"u">>, <<"p">>, <<"t">>,
                <<"2", "0", "2", "6", "-", "0", "1", "-", "0", "1">>)

\* the budgets of the model leave MinSlack..MaxSlack bytes beside the
\* frontmatter of the document: room for the " (Part N)" suffix (9 bytes) and
\* any one paragraph or heading line of the model (at most 6 bytes)
MinSlack == 15
MaxSlack == 18
ChunkBudgets ==
    {ByteLen(FormatMarkdownWithFrontmatter(DocOf(<<>>))) + k : k \in MinSlack..MaxSlack}

ChunkIdle ==
    /\ doc = DocOf(<<>>)
    /\ max_size = 0
    /\ chunks = <<>>
    /\ chunkPc = "idle"

ChunkInit ==
    /\ doc \in {DocOf(c) : c \in ChunkContents}
    /\ max_size \in ChunkBudgets
    /\ chunks = <<>>
    /\ chunkPc = "call"

\* one call of chunk_markdown(doc, max_size)
ChunkMarkdown ==
    /\ chunkPc = "call"
    /\ chunks' = ChunkMarkdownOf(doc, max_size)
    /\ chunkPc' = "done"
    /\ UNCHANGED <<doc, max_size>>

RECURSIVE ConcatContents(_)
ConcatContents(cs) == IF cs = <<>> THEN <<>> ELSE cs[1].content \o ConcatContents(Tail(cs))

\* the document is over budget, so chunk_markdown splits it
Oversized == ByteLen(FormatMarkdownWithFrontmatter(doc)) > max_size

\* C6: every chunk of a document over budget has, with its own frontmatter
\* (its " (Part N)" topic included), a serialized size of at most max_size.
C6_ChunkWithinBudget ==
    (chunkPc = "done" /\ Oversized) =>
        \A i \in 1..Len(chunks) : ByteLen(FormatMarkdownWithFrontmatter(chunks[i])) <= max_size

\* C7: the contents of the chunks of a split document, concatenated in order,
\* are the content of the document.
C7_ChunksReproduceContent ==
    (chunkPc = "done" /\ Oversized) => ConcatContents(chunks) = doc.content

----------------------------------------------------------------------------
(* BaseScraper.scrape_docs                                                  *)

\* the needle occurs in s ("needle in s")
Contains(s, needle) == \E i \in 1..(Len(s) + 1) : HasAt(s, i, needle)

UpperSeq == <<"A","B","C","D","E","F","G","H","I","J","K","L","M",
              "N","O","P","Q","R","S","T","U","V","W","X","Y","Z">>
LowerSeq == <<"a","b","c","d","e","f","g","h","i","j","k","l","m",
              "n","o","p","q","r","s","t","u","v","w","x","y","z">>

\* str.lower()
ToLower(s) ==
    [i \in 1..Len(s) |->
        IF s[i] \in Upper THEN LowerSeq[CHOOSE k \in 1..26 : UpperSeq[k] = s[i]] ELSE s[i]]

Whitespace == {" ", "\t", "\n", "\r", "\f"}

\* str.strip(): whitespace removed at both ends
RECURSIVE StripWs(_)
StripWs(s) ==
    IF s # <<>> /\ s[1] \in Whitespace THEN StripWs(Tail(s))
    ELSE IF s # <<>> /\ s[Len(s)] \in Whitespace THEN StripWs(SubSeq(s, 1, Len(s) - 1))
    ELSE s

\* "x or ''" on an optional text
OrEmpty(opt) == IF opt.found THEN opt.text ELSE <<>>

\* a rate-limit test that knows the status code only
IsRateLimit429Only(msg) == Contains(msg, <<"4", "2", "9">>)

\* the rate-limit test on result.error_message
IsRateLimitMessage(msg) ==
    Contains(msg, <<"4", "2", "9">>) \/ Contains(ToLower(msg), <<"r", "a", "t", "e">>)

\* a fit rendering shorter than this (stripped) is not used
FitMinLength == 100
\* a page title of this length or more is not used as the topic
TitleMaxLength == 100

\* BaseScraper._extract_topic
ExtractTopic(url, title) ==
    IF title # <<>> /\ Len(title) < TitleMaxLength THEN title
    ELSE LET parts == Split(RStrip(url, "/"), "/")
         IN  IF Len(parts) > 3 THEN parts[Len(parts)] ELSE <<"i", "n", "d", "e", "x">>

\* the content scrape_docs takes from a result: fit when substantial, else raw,
\* else nothing
PickContent(result) ==
    LET fit_md == OrEmpty(result.fit_markdown)
        raw_md == OrEmpty(result.raw_markdown)
    IN  IF Len(StripWs(fit_md)) >= FitMinLength THEN Some(fit_md)
        ELSE IF StripWs(raw_md) # <<>> THEN Some(raw_md)
        ELSE NoText

\* the test after the loop raising as soon as one page failed
AllPagesFailedAnyError(errors, written, total) == errors > 0 /\ written = 0

\* the test after the loop with the comparison off by one
AllPagesFailedAbove(errors, written, total) == errors > total /\ written = 0

\* "if error_count == len(urls) and written_count == 0" after the loop
AllPagesFailed(errors, written, total) == errors = total /\ written = 0

\* what crawler.arun gives for one URL: it raises, or returns a result
CrawlResult(raises, success, error_message, fit_markdown, raw_markdown, title, etag) ==
    [raises |-> raises, success |-> success, error_message |-> error_message,
     fit_markdown |-> fit_markdown, raw_markdown |-> raw_markdown,
     title |-> title, etag |-> etag]

LongText == [i \in 1..FitMinLength |-> "x"]
ShortText == <<"x">>

MsgTimeout == <<"C", "o", "n", "n", "e", "c", "t", "i", "o", "n", " ", "t", "i", "m", "e", "o", "u", "t">>
Msg429 == <<"H", "T", "T", "P", " ", "4", "2", "9">>
MsgRate == <<"R", "a", "t", "e", " ", "l", "i", "m", "i", "t">>

\* the results of the model
FailedResults ==
    {CrawlResult(TRUE, FALSE, NoText, NoText, NoText, <<>>, NoEtag),
     CrawlResult(FALSE, FALSE, Some(MsgTimeout), NoText, NoText, <<>>, NoEtag),
     CrawlResult(FALSE, FALSE, NoText, NoText, NoText, <<>>, NoEtag),
     CrawlResult(FALSE, TRUE, NoText, NoText, NoText, <<>>, NoEtag),
     CrawlResult(FALSE, TRUE, NoText, Some(ShortText), Some(<<" ", "\n">>), <<>>, NoEtag)}
RateLimitedResults ==
    {CrawlResult(FALSE, FALSE, Some(Msg429), NoText, NoText, <<>>, NoEtag),
     CrawlResult(FALSE, TRUE, Some(MsgRate), Some(LongText), Some(ShortText), <<>>, NoEtag)}
ContentResults ==
    {CrawlResult(FALSE, TRUE, NoText, fit, Some(ShortText), <<>>, etag) :
        fit \in {NoText, Some(LongText)}, etag \in WriteEtags}
    \cup {CrawlResult(FALSE, TRUE, NoText, NoText, Some(ShortText), <<"a">>, NoEtag)}
CrawlResults == FailedResults \cup RateLimitedResults \cup ContentResults

\* the lists discover_doc_urls returns in the model: no URL is listed twice
UrlLists == {<<>>, <<UrlA>>, <<UrlB>>, <<UrlA, UrlB>>, <<UrlB, UrlA>>}

\* number of scrape_docs calls in a behaviour
MaxScrapes == 2

ScrapeIdle ==
    /\ scrapePc = "idle"
    /\ urls = <<>>
    /\ idx = 1
    /\ written_count = 0
    /\ error_count = 0
    /\ outcomes = <<>>
    /\ writeCalls = 0
    /\ nScrapes = 0
    /\ lastMessage = NoText

\* scrape_docs is called and discover_doc_urls returns "found"; an empty list
\* raises the "no doc URLs" DocsScrapeError
ScrapeDocsStart(found) ==
    /\ alive
    /\ scrapePc \notin {"loop"}
    /\ nScrapes < MaxScrapes
    /\ nScrapes' = nScrapes + 1
    /\ urls' = found
    /\ scrapePc' = IF found = <<>> THEN "raised_no_urls" ELSE "loop"
    /\ idx' = 1
    /\ written_count' = 0
    /\ error_count' = 0
    /\ outcomes' = <<>>
    /\ writeCalls' = 0
    /\ lastMessage' = NoText
    /\ UNCHANGED archiveVars

\* a loop that never skips a URL as unchanged
SkipNever(url, etag, content) == FALSE

\* "if not self.archive.has_changed(url, etag, content): continue"
SkipUnchanged(url, etag, content) == ~HasChanged(url, etag, content)

\* one iteration of the for loop, the crawler giving "result" for urls[idx]
ScrapeUrl(result) ==
    /\ scrapePc = "loop"
    /\ idx <= Len(urls)
    /\ LET url == urls[idx]
           picked == PickContent(result)
           topic == ExtractTopic(url, result.title)
       IN  IF result.raises
           THEN /\ error_count' = error_count + 1
                /\ outcomes' = Append(outcomes, "fetch_raised")
                /\ idx' = idx + 1
                /\ UNCHANGED <<scrapePc, written_count, writeCalls, archiveVars>>
           ELSE IF /\ result.error_message.found
                   /\ result.error_message.text # <<>>
                   /\ IsRateLimitMessage(result.error_message.text)
           THEN /\ scrapePc' = "raised_rate_limited"
                /\ outcomes' = Append(outcomes, "rate_limited")
                /\ UNCHANGED <<idx, written_count, error_count, writeCalls, archiveVars>>
           ELSE IF ~result.success
           THEN /\ error_count' = error_count + 1
                /\ outcomes' = Append(outcomes, "unsuccessful")
                /\ idx' = idx + 1
                /\ UNCHANGED <<scrapePc, written_count, writeCalls, archiveVars>>
           ELSE IF ~picked.found
           THEN /\ error_count' = error_count + 1
                /\ outcomes' = Append(outcomes, "no_markdown")
                /\ idx' = idx + 1
                /\ UNCHANGED <<scrapePc, written_count, writeCalls, archiveVars>>
           ELSE IF SkipUnchanged(url, result.etag, picked.text)
           THEN /\ outcomes' = Append(outcomes, "unchanged")
                /\ idx' = idx + 1
                /\ UNCHANGED <<scrapePc, written_count, error_count, writeCalls, archiveVars>>
           ELSE /\ Write(url, picked.text, topic, result.etag)
                /\ writeCalls' = writeCalls + 1
                /\ idx' = idx + 1
                /\ IF docs.exists
                   THEN /\ written_count' = written_count + 1
                        /\ outcomes' = Append(outcomes, "written")
                        /\ UNCHANGED error_count
                   ELSE /\ error_count' = error_count + 1
                        /\ outcomes' = Append(outcomes, "write_raised")
                        /\ UNCHANGED written_count
                /\ UNCHANGED scrapePc
    /\ lastMessage' = IF result.raises THEN NoText ELSE result.error_message
    /\ UNCHANGED <<urls, nScrapes>>

\* after the loop: raise "all pages failed", or return written_count
ScrapeDocsEnd ==
    /\ scrapePc = "loop"
    /\ idx > Len(urls)
    /\ scrapePc' = IF AllPagesFailed(error_count, written_count, Len(urls))
                   THEN "raised_all_failed" ELSE "returned"
    /\ UNCHANGED <<urls, idx, written_count, error_count, outcomes, writeCalls, nScrapes, lastMessage, archiveVars>>

\* a new process: BaseScraper.__init__ builds the archive, and no scrape_docs
\* call of this process has been made
NewProcess ==
    /\ Construct
    /\ scrapePc' = "idle"
    /\ urls' = <<>>
    /\ idx' = 1
    /\ written_count' = 0
    /\ error_count' = 0
    /\ outcomes' = <<>>
    /\ writeCalls' = 0
    /\ lastMessage' = NoText
    /\ UNCHANGED nScrapes

\* the causes the scrape counts as a page that produced no content
FailureOutcomes == {"fetch_raised", "unsuccessful", "no_markdown"}

ScrapeOver == scrapePc \in {"returned", "raised_all_failed", "raised_rate_limited", "raised_no_urls"}
ScrapeRaisedDocsScrapeError ==
    scrapePc \in {"raised_all_failed", "raised_rate_limited", "raised_no_urls"}

\* every URL of the batch was handled and every one failed to produce content
EveryUrlFailed ==
    /\ Len(outcomes) = Len(urls)
    /\ \A i \in 1..Len(outcomes) : outcomes[i] \in FailureOutcomes

----------------------------------------------------------------------------
(* discover_sitemap                                                         *)

\* the candidates with robots.txt tried first
SitemapPathsRobotsFirst == <<"/robots.txt", "/sitemap.xml", "/sitemap_index.xml", "/sitemap1.xml">>

SITEMAP_PATHS == <<"/sitemap.xml", "/sitemap_index.xml", "/sitemap1.xml", "/robots.txt">>

\* str.endswith
EndsWith(s, suffix) ==
    Len(s) >= Len(suffix) /\ HasAt(s, Len(s) - Len(suffix) + 1, suffix)

DotXml == <<".", "x", "m", "l">>

\* "all(url.endswith('.xml') for url in urls)"
IsSitemapIndex(found) == \A i \in 1..Len(found) : EndsWith(found[i], DotXml)

\* a response body, by what the parsers see in it: an XML document with the
\* texts of its <sitemap><loc> and <url><loc> elements, a robots.txt with the
\* values of its "Sitemap:" lines, an empty body, or any other text; "marker"
\* says that "429" or "Too Many Requests" occurs in its first 500 characters
Body(kind, sitemap_locs, url_locs, marker) ==
    [kind |-> kind, sitemap_locs |-> sitemap_locs, url_locs |-> url_locs, marker |-> marker]

\* the <loc> texts kept: "if loc.text and loc.text.strip()", stripped
RECURSIVE KeepLocs(_)
KeepLocs(locs) ==
    IF locs = <<>> THEN <<>>
    ELSE IF StripWs(locs[1]) # <<>> THEN <<StripWs(locs[1])>> \o KeepLocs(Tail(locs))
    ELSE KeepLocs(Tail(locs))

\* parse_sitemap_xml: [] for an empty or unparseable text, else the <sitemap>
\* locations followed by the <url> locations
ParseSitemapXml(body) ==
    IF body.kind # "xml" THEN <<>>
    ELSE KeepLocs(body.sitemap_locs) \o KeepLocs(body.url_locs)

\* _extract_sitemaps_from_robots
ExtractSitemapsFromRobots(body) ==
    IF body.kind = "robots" THEN [i \in 1..Len(body.sitemap_locs) |-> StripWs(body.sitemap_locs[i])]
    ELSE <<>>

\* what client.get gives: it raises httpx.HTTPError, or answers with a status
\* and a body
Response(raises, status_code, body) == [raises |-> raises, status_code |-> status_code, body |-> body]

NoBody == Body("empty", <<>>, <<>>, FALSE)

\* (content, status) of _fetch_sitemap_content; status 0 stands for None
Fetched(has_content, content, status) ==
    [has_content |-> has_content, content |-> content, status |-> status]

\* the status checks made on a response before its text is read
StatusOutcome(resp) ==
    IF resp.status_code = 429 THEN Fetched(FALSE, NoBody, 429)
    ELSE IF resp.status_code >= 500 THEN Fetched(FALSE, NoBody, resp.status_code)
    ELSE IF resp.status_code # 200 THEN Fetched(FALSE, NoBody, resp.status_code)
    ELSE IF resp.body.marker THEN Fetched(FALSE, NoBody, 429)
    ELSE Fetched(TRUE, resp.body, 200)

\* _fetch_sitemap_content: resp answers the fetch of the candidate, resp2 the
\* fetch of the first sitemap named by robots.txt
FetchSitemapContent(path, resp, resp2) ==
    IF resp.raises THEN Fetched(FALSE, NoBody, 0)
    ELSE LET first == StatusOutcome(resp)
         IN  IF ~first.has_content THEN first
             ELSE IF path # "/robots.txt" THEN first
             ELSE IF ExtractSitemapsFromRobots(resp.body) = <<>> THEN Fetched(FALSE, NoBody, 0)
             ELSE IF resp2.raises THEN Fetched(FALSE, NoBody, 0)
             ELSE StatusOutcome(resp2)

\* the second fetch of _fetch_sitemap_content is made
SecondFetchMade(path, resp) ==
    /\ path = "/robots.txt"
    /\ ~resp.raises
    /\ StatusOutcome(resp).has_content
    /\ ExtractSitemapsFromRobots(resp.body) # <<>>

\* the URLs of the model: pages and child sitemaps
Page1 == <<"p", "1">>
Page2 == <<"p", "2">>
Page3 == <<"p", "3">>
Child1 == <<"c", "1", ".", "x", "m", "l">>
Child2 == <<"c", "2", ".", "x", "m", "l">>

\* the responses of the model
ErrorResponses ==
    {Response(TRUE, 0, NoBody),
     Response(FALSE, 429, NoBody),
     Response(FALSE, 503, NoBody),
     Response(FALSE, 404, NoBody),
     Response(FALSE, 200, Body("other", <<>>, <<>>, TRUE))}
BodyResponses ==
    {Response(FALSE, 200, NoBody),
     Response(FALSE, 200, Body("other", <<>>, <<>>, FALSE)),
     Response(FALSE, 200, Body("xml", <<>>, <<<<" ">>>>, FALSE)),
     Response(FALSE, 200, Body("xml", <<>>, <<Page1>>, FALSE)),
     Response(FALSE, 200, Body("xml", <<>>, <<<<" ", "p", "2", "\n">>, <<>>, Page3>>, FALSE)),
     Response(FALSE, 200, Body("xml", <<Child1, Child2>>, <<>>, FALSE)),
     Response(FALSE, 200, Body("xml", <<Child1>>, <<Page1>>, FALSE)),
     Response(FALSE, 200, Body("robots", <<<<" ", "s", ".", "x", "m", "l">>>>, <<>>, FALSE))}
Responses == ErrorResponses \cup BodyResponses

NoList == [found |-> FALSE, urls |-> <<>>]
SomeList(found) == [found |-> TRUE, urls |-> found]

DiscIdle ==
    /\ discPc = "idle"
    /\ pathIdx = 1
    /\ childUrls = <<>>
    /\ childIdx = 1
    /\ all_urls = <<>>
    /\ discResult = NoList
    /\ candidateLog = <<>>
    /\ childLog = <<>>
    /\ firstList = <<>>
    /\ pathLog = <<>>

\* discover_sitemap(base_url) is called
DiscInit ==
    /\ discPc = "candidates"
    /\ pathIdx = 1
    /\ childUrls = <<>>
    /\ childIdx = 1
    /\ all_urls = <<>>
    /\ discResult = NoList
    /\ candidateLog = <<>>
    /\ childLog = <<>>
    /\ firstList = <<>>
    /\ pathLog = <<>>

\* one iteration of "for path in SITEMAP_PATHS"
TryCandidate(resp, resp2) ==
    /\ discPc = "candidates"
    /\ pathIdx <= Len(SITEMAP_PATHS)
    /\ (SecondFetchMade(SITEMAP_PATHS[pathIdx], resp) \/ resp2 = resp)
    /\ LET path == SITEMAP_PATHS[pathIdx]
           got == FetchSitemapContent(path, resp, resp2)
           found == ParseSitemapXml(got.content)
       IN  /\ candidateLog' = IF SecondFetchMade(path, resp)
                              THEN candidateLog \o <<resp, resp2>>
                              ELSE Append(candidateLog, resp)
           /\ IF got.status = 429 \/ (got.status # 0 /\ got.status >= 500)
              THEN /\ discPc' = "raised"
                   /\ UNCHANGED <<pathIdx, childUrls, firstList>>
              ELSE IF ~got.has_content \/ got.content.kind = "empty" \/ found = <<>>
              THEN /\ pathIdx' = pathIdx + 1
                   /\ UNCHANGED <<discPc, childUrls, firstList>>
              ELSE IF IsSitemapIndex(found)
              THEN /\ discPc' = "children"
                   /\ childUrls' = found
                   /\ firstList' = found
                   /\ UNCHANGED pathIdx
              ELSE /\ discPc' = "returned"
                   /\ firstList' = found
                   /\ UNCHANGED <<pathIdx, childUrls>>
           /\ discResult' = IF discPc' = "returned" THEN SomeList(found) ELSE discResult
    /\ pathLog' = Append(pathLog, SITEMAP_PATHS[pathIdx])
    /\ UNCHANGED <<childIdx, all_urls, childLog>>

\* the loop over SITEMAP_PATHS is over: "return None"
NoSitemapFound ==
    /\ discPc = "candidates"
    /\ pathIdx > Len(SITEMAP_PATHS)
    /\ discPc' = "returned"
    /\ discResult' = NoList
    /\ UNCHANGED <<pathIdx, childUrls, childIdx, all_urls, candidateLog, childLog, firstList, pathLog>>

\* one iteration of "for child_sitemap_url in sitemap_urls"
FetchChild(resp) ==
    /\ discPc = "children"
    /\ childIdx <= Len(childUrls)
    /\ childLog' = Append(childLog, resp)
    /\ IF resp.raises
       THEN /\ childIdx' = childIdx + 1
            /\ UNCHANGED <<discPc, all_urls>>
       ELSE IF resp.status_code = 429
       THEN /\ discPc' = "raised"
            /\ UNCHANGED <<childIdx, all_urls>>
       ELSE IF resp.status_code # 200
       THEN /\ childIdx' = childIdx + 1
            /\ UNCHANGED <<discPc, all_urls>>
       ELSE IF resp.body.marker
       THEN /\ discPc' = "raised"
            /\ UNCHANGED <<childIdx, all_urls>>
       ELSE /\ all_urls' = all_urls \o ParseSitemapXml(resp.body)
            /\ childIdx' = childIdx + 1
            /\ UNCHANGED discPc
    /\ UNCHANGED <<pathIdx, childUrls, discResult, candidateLog, firstList, pathLog>>

\* the loop over the children is over: "return all_urls if all_urls else None"
ChildrenDone ==
    /\ discPc = "children"
    /\ childIdx > Len(childUrls)
    /\ discPc' = "returned"
    /\ discResult' = IF all_urls # <<>> THEN SomeList(all_urls) ELSE NoList
    /\ UNCHANGED <<pathIdx, childUrls, childIdx, all_urls, candidateLog, childLog, firstList, pathLog>>

----------------------------------------------------------------------------
(* BaseScraper._filter_doc_urls                                             *)

\* str.startswith
StartsWith(s, prefix) == HasAt(s, 1, prefix)

\* "self.docs_base_url or self.provider_website": None and "" are falsy
BaseUrl(docs_base, website) ==
    IF docs_base.found /\ docs_base.text # <<>> THEN docs_base.text ELSE website

\* the comparison form of a URL that keeps the trailing slashes
NormalizeUrlKeepSlash(url) == url

\* "normalized = url.rstrip('/')"
NormalizeUrl(url) == RStrip(url, "/")

\* the doc-like keywords
DocKeywords ==
    {<<"d", "o", "c", "s">>, <<"h", "e", "l", "p">>,
     <<"s", "u", "p", "p", "o", "r", "t">>, <<"g", "u", "i", "d", "e">>,
     <<"f", "a", "q">>, <<"t", "u", "t", "o", "r", "i", "a", "l">>,
     <<"k", "n", "o", "w", "l", "e", "d", "g", "e">>}

\* the path of a URL: what follows scheme://host
UrlPath(url) ==
    LET parts == Split(url, "/")
    IN  IF Len(parts) > 3 THEN Join(SubSeq(parts, 4, Len(parts)), <<"/">>) ELSE <<>>

\* the path of the URL contains a doc-like keyword, whatever the case
HasDocKeyword(url) == \E kw \in DocKeywords : Contains(ToLower(UrlPath(url)), kw)

\* the prefix test widened by the keyword test
InDocsScopeOrKeyword(normalized, base_url) ==
    StartsWith(normalized, base_url) \/ HasDocKeyword(normalized)

\* "normalized.startswith(base_url)"
InDocsScope(normalized, base_url) == StartsWith(normalized, base_url)

\* the for loop of _filter_doc_urls over the rest of the list
RECURSIVE FilterLoop(_, _, _, _)
FilterLoop(rest, base_url, seen, filtered) ==
    IF rest = <<>> THEN filtered
    ELSE LET url == rest[1]
             normalized == NormalizeUrl(url)
         IN  IF InDocsScope(normalized, base_url) /\ normalized \notin seen
             THEN FilterLoop(Tail(rest), base_url, seen \cup {normalized}, Append(filtered, url))
             ELSE FilterLoop(Tail(rest), base_url, seen, filtered)

\* BaseScraper._filter_doc_urls
FilterDocUrlsOf(docs_base, website, found) ==
    FilterLoop(found, RStrip(BaseUrl(docs_base, website), "/"), {}, <<>>)

\* the URLs and configurations the filter is exercised with
SiteD == <<"s", ":", "/", "/", "d">>
SiteDSlash == <<"s", ":", "/", "/", "d", "/">>
SiteW == <<"s", ":", "/", "/", "w">>
UrlASlash == <<"s", ":", "/", "/", "d", "/", "a", "/">>
UrlDFaq == <<"s", ":", "/", "/", "d", "/", "F", "A", "Q">>
UrlWDocs == <<"s", ":", "/", "/", "w", "/", "d", "o", "c", "s">>
UrlWA == <<"s", ":", "/", "/", "w", "/", "a">>
FilterUrls == {UrlA, UrlASlash, UrlB, SiteD, UrlDFaq, UrlWDocs, UrlWA}
DocsBaseUrls == {NoText, Some(<<>>), Some(SiteD), Some(SiteDSlash)}

\* longest list passed to the filter
MaxFilterLen == 3

RECURSIVE SeqsUpTo(_, _)
SeqsUpTo(S, n) ==
    IF n = 0 THEN {<<>>}
    ELSE LET shorter == SeqsUpTo(S, n - 1)
         IN  shorter \cup {Append(q, x) : q \in shorter, x \in S}

FilterIdle ==
    /\ docs_base_url = Some(SiteD)
    /\ provider_website = SiteW
    /\ filterIn = <<>>
    /\ filterOut = <<>>
    /\ filterPc = "idle"

FilterInit ==
    /\ docs_base_url \in DocsBaseUrls
    /\ provider_website = SiteW
    /\ filterIn \in SeqsUpTo(FilterUrls, MaxFilterLen)
    /\ filterOut = <<>>
    /\ filterPc = "call"

\* the call of _filter_doc_urls
FilterDocUrls ==
    /\ filterPc = "call"
    /\ filterOut' = FilterDocUrlsOf(docs_base_url, provider_website, filterIn)
    /\ filterPc' = "done"
    /\ UNCHANGED <<docs_base_url, provider_website, filterIn>>

\* a URL without its trailing slashes
RStrip1(url) == RStrip(url, "/")

\* the base URL of the call, trailing slashes stripped
FilterBase == RStrip(BaseUrl(docs_base_url, provider_website), "/")

\* the positions of the input whose URL is in scope and not seen before
FirstInScope(i) ==
    /\ StartsWith(RStrip1(filterIn[i]), FilterBase)
    /\ \A j \in 1..(i - 1) : RStrip1(filterIn[j]) # RStrip1(filterIn[i])

Returned(url) ==
    \E k \in 1..Len(filterOut) : RStrip1(filterOut[k]) = RStrip1(url)

\* C14 as stated: a discovered URL is kept when it starts with the base URL or
\* its path contains a doc-like keyword, and dropped otherwise.
C14_KeptByPrefixOrKeyword ==
    filterPc = "done" =>
        \A i \in 1..Len(filterIn) :
            Returned(filterIn[i]) <=>
                (StartsWith(RStrip1(filterIn[i]), FilterBase) \/ HasDocKeyword(filterIn[i]))

\* C14 amended: a discovered URL is kept exactly when it starts with the base
\* URL; a doc-like keyword in its path does not keep a URL outside the base.
C14_KeptByPrefixOnly ==
    filterPc = "done" =>
        \A i \in 1..Len(filterIn) :
            Returned(filterIn[i]) <=> StartsWith(RStrip1(filterIn[i]), FilterBase)

\* C14 witness: a call kept a URL under the base without keyword and dropped
\* a URL of another host whose path is "docs".
C14_Witness ==
    /\ filterPc = "done"
    /\ filterIn = <<UrlWDocs, UrlA>>
    /\ FilterBase = SiteD
    /\ filterOut = <<UrlA>>

----------------------------------------------------------------------------
(* parse_sitemap_xml on a text                                              *)
(* A text is a sequence of items: a start tag, an end tag or one character, *)
(* the character being a URL letter, a blank or a lone surrogate code point. *)

TagNames == {"urlset", "url", "sitemap", "loc"}
StartTag(name) == [kind |-> "start", name |-> name]
EndTag(name) == [kind |-> "end", name |-> name]
Char(c) == [kind |-> "char", name |-> c]
\* a code point that str.encode("utf-8") refuses
Surrogate == "U+D800"
XmlItems ==
    {StartTag(n) : n \in TagNames} \cup {EndTag(n) : n \in TagNames}
    \cup {Char("u"), Char(" "), Char(Surrogate)}

\* what the call gives: a list, or an exception
Returns(found) == [raised |-> FALSE, error |-> "", urls |-> found]
Raises(error) == [raised |-> TRUE, error |-> error, urls |-> <<>>]

\* the state of the XML parser: the open elements, whether the root element
\* is closed, the <loc> elements matched by the two findall paths so far, in
\* document order, and whether the text is not well-formed
ParserState(stack, rootDone, locs, bad) ==
    [stack |-> stack, rootDone |-> rootDone, locs |-> locs, bad |-> bad]
\* an open element: "slot" is its position in locs (0 when it is not a
\* matched <loc>), "first" says that no child element has started yet
OpenElement(name, slot, first) == [name |-> name, slot |-> slot, first |-> first]

Pop(stack) == SubSeq(stack, 1, Len(stack) - 1)
Top(stack) == stack[Len(stack)]
SetTop(stack, e) == [stack EXCEPT ![Len(stack)] = e]

\* the parser reads one item
ParserStep(st, item) ==
    IF st.bad THEN st
    ELSE IF item.kind = "start"
    THEN IF st.stack = <<>>
         THEN IF st.rootDone THEN [st EXCEPT !.bad = TRUE]
              ELSE [st EXCEPT !.stack = <<OpenElement(item.name, 0, TRUE)>>]
         ELSE LET parent == Top(st.stack)
                  \* ".//{*}sitemap/{*}loc" and ".//{*}url/{*}loc": a <loc>
                  \* whose parent is a <sitemap> or <url> below the root
                  matched == /\ item.name = "loc"
                             /\ parent.name \in {"sitemap", "url"}
                             /\ Len(st.stack) >= 2
                  closedText == SetTop(st.stack, [parent EXCEPT !.first = FALSE])
              IN  IF matched
                  THEN [st EXCEPT
                          !.locs = Append(st.locs, [parent |-> parent.name, text |-> <<>>]),
                          !.stack = Append(closedText, OpenElement("loc", Len(st.locs) + 1, TRUE))]
                  ELSE [st EXCEPT !.stack = Append(closedText, OpenElement(item.name, 0, TRUE))]
    ELSE IF item.kind = "end"
    THEN IF st.stack = <<>> \/ Top(st.stack).name # item.name
         THEN [st EXCEPT !.bad = TRUE]
         ELSE [st EXCEPT !.stack = Pop(st.stack), !.rootDone = (Len(st.stack) = 1)]
    ELSE IF st.stack = <<>>
         THEN IF item.name \in Whitespace THEN st ELSE [st EXCEPT !.bad = TRUE]
         ELSE LET e == Top(st.stack)
              IN  \* element.text: the characters before the first child
                  IF e.slot # 0 /\ e.first
                  THEN [st EXCEPT !.locs[e.slot].text = Append(@, item.name)]
                  ELSE st

RECURSIVE ParserRun(_, _)
ParserRun(st, items) ==
    IF items = <<>> THEN st ELSE ParserRun(ParserStep(st, items[1]), Tail(items))

\* ET.fromstring raises ParseError
NotWellFormed(items) ==
    LET st == ParserRun(ParserState(<<>>, FALSE, <<>>, FALSE), items)
    IN  st.bad \/ st.stack # <<>> \/ ~st.rootDone

\* the texts of the matched <loc> elements with the given parent
RECURSIVE LocTexts(_, _)
LocTexts(locs, parent) ==
    IF locs = <<>> THEN <<>>
    ELSE (IF locs[1].parent = parent THEN <<locs[1].text>> ELSE <<>>)
         \o LocTexts(Tail(locs), parent)

\* the call without the encoding step of ET.fromstring
ParseSitemapXmlNoEncode(items) ==
    IF items = <<>> THEN Returns(<<>>)
    ELSE IF NotWellFormed(items) THEN Returns(<<>>)
    ELSE LET st == ParserRun(ParserState(<<>>, FALSE, <<>>, FALSE), items)
         IN  Returns(KeepLocs(LocTexts(st.locs, "sitemap")) \o KeepLocs(LocTexts(st.locs, "url")))

\* parse_sitemap_xml: ET.fromstring encodes the text to UTF-8 first, which
\* raises UnicodeEncodeError on a lone surrogate; only ParseError is caught
ParseSitemapXmlText(items) ==
    IF items = <<>> THEN Returns(<<>>)
    ELSE IF \E i \in 1..Len(items) : items[i] = Char(Surrogate)
    THEN Raises("UnicodeEncodeError")
    ELSE ParseSitemapXmlNoEncode(items)

\* the texts of the model: every short sequence of items, and two sitemaps
\* with one item deleted, replaced or inserted
UrlsetDoc ==
    <<StartTag("urlset"), StartTag("url"), StartTag("loc"), Char(" "), Char("u"), Char(" "),
      EndTag("loc"), EndTag("url"), StartTag("url"), StartTag("loc"), Char(" "),
      EndTag("loc"), EndTag("url"), EndTag("urlset")>>
IndexDoc ==
    <<StartTag("urlset"), StartTag("sitemap"), StartTag("loc"), Char("u"),
      EndTag("loc"), EndTag("sitemap"), EndTag("urlset")>>
Edits(d) ==
    {d}
    \cup {SubSeq(d, 1, i - 1) \o SubSeq(d, i + 1, Len(d)) : i \in 1..Len(d)}
    \cup {[d EXCEPT ![i] = x] : i \in 1..Len(d), x \in XmlItems}
    \cup {SubSeq(d, 1, i) \o <<x>> \o SubSeq(d, i + 1, Len(d)) : i \in 0..Len(d), x \in XmlItems}

\* longest free sequence of items
MaxXmlItems == 2

XmlTexts == SeqsUpTo(XmlItems, MaxXmlItems) \cup Edits(UrlsetDoc) \cup Edits(IndexDoc)

ParseIdle ==
    /\ xml_content = <<>>
    /\ parseResult = Returns(<<>>)
    /\ parsePc = "idle"

ParseInit ==
    /\ xml_content \in XmlTexts
    /\ parseResult = Returns(<<>>)
    /\ parsePc = "call"

\* the call of parse_sitemap_xml
ParseSitemapXmlCall ==
    /\ parsePc = "call"
    /\ parseResult' = ParseSitemapXmlText(xml_content)
    /\ parsePc' = "done"
    /\ UNCHANGED xml_content

\* the text is a well-formed document: balanced tags, one root element
RECURSIVE Balanced(_, _, _)
Balanced(items, open, rootSeen) ==
    IF items = <<>> THEN open = <<>> /\ rootSeen
    ELSE LET x == items[1]
         IN  IF x.kind = "start"
             THEN (open # <<>> \/ ~rootSeen) /\ Balanced(Tail(items), Append(open, x.name), TRUE)
             ELSE IF x.kind = "end"
             THEN /\ open # <<>>
                  /\ open[Len(open)] = x.name
                  /\ Balanced(Tail(items), SubSeq(open, 1, Len(open) - 1), rootSeen)
             ELSE (open # <<>> \/ x.name = " ") /\ Balanced(Tail(items), open, rootSeen)

\* C15: parse_sitemap_xml never raises; for an empty text, blanks only,
\* non-XML text or malformed XML it returns the empty list, and every value it
\* returns is non-empty and has no blank at either end.
C15_ParseNeverRaises ==
    parsePc = "done" =>
        /\ ~parseResult.raised
        /\ ~Balanced(xml_content, <<>>, FALSE) => parseResult.urls = <<>>
        /\ \A k \in 1..Len(parseResult.urls) :
              LET u == parseResult.urls[k]
              IN  u # <<>> /\ u[1] # " " /\ u[Len(u)] # " "

----------------------------------------------------------------------------
(* DocsArchive._safe_filename as a function of any url and topic            *)

\* the urls and the topic characters of the model
SafeUrls ==
    {SiteD, SiteDSlash, UrlA, UrlASlash,
     <<"s", ":", "/", "/", "d", "/", "a", "-", "b">>,
     <<"s", ":", "/", "/", "d", "/", "a", "/", "!">>,
     <<"s", ":", "/", "/", "d", "/", "a", "/", "B", "_", "1">>,
     <<"s", ":", "/", "/", "d", "/", "a", "?", "r", "=", "/", "b">>,
     <<"s", ":", "/", "/", "d", "?", "r", "=", "/", "b">>}
TopicChars == {"a", "-", "!", "_"}

\* longest topic
MaxTopicLen == 3

SafeIdle ==
    /\ safeUrl = <<>>
    /\ safeTopic = <<>>
    /\ safeName = <<>>
    /\ safePc = "idle"

SafeInit ==
    /\ safeUrl \in SafeUrls
    /\ safeTopic \in SeqsUpTo(TopicChars, MaxTopicLen)
    /\ safeName = <<>>
    /\ safePc = "call"

\* the call of _safe_filename
SafeFilenameCall ==
    /\ safePc = "call"
    /\ safeName' = SafeFilename(safeUrl, safeTopic)
    /\ safePc' = "done"
    /\ UNCHANGED <<safeUrl, safeTopic>>

\* the part of a URL before its query and fragment
RECURSIVE BeforeQuery(_)
BeforeQuery(u) ==
    IF u = <<>> \/ u[1] \in {"?", "#"} THEN <<>> ELSE <<u[1]>> \o BeforeQuery(Tail(u))

\* the non-empty segments of the path of a URL
PathSegments(u) ==
    LET parts == Split(BeforeQuery(u), "/")
    IN  SelectSeq(IF Len(parts) > 3 THEN SubSeq(parts, 4, Len(parts)) ELSE <<>>,
                  LAMBDA seg : seg # <<>>)

\* a text with the characters outside [A-Za-z0-9_-] made hyphens, hyphen runs
\* made one hyphen and the hyphens at both ends removed
Sanitized(base) == Strip(CollapseHyphens(ReplaceUnsafe(base)), "-")

\* the base the name is to be derived from
ChosenBase ==
    IF safeTopic # <<>> THEN safeTopic
    ELSE IF PathSegments(safeUrl) = <<>> THEN <<"i", "n", "d", "e", "x">>
    ELSE PathSegments(safeUrl)[Len(PathSegments(safeUrl))]

\* C16: _safe_filename returns s + ".md" where s is non-empty, made of
\* [A-Za-z0-9_-] only, without a run of hyphens and without a hyphen at either
\* end; s comes from the topic when there is one, else from the last path
\* segment of the URL, is "index" when there is neither, and is "page" when
\* the chosen base sanitizes to nothing.
C16_SafeFilenameShape ==
    safePc = "done" =>
        /\ Len(safeName) > 3
        /\ SubSeq(safeName, Len(safeName) - 2, Len(safeName)) = <<".", "m", "d">>
        /\ LET stem == SubSeq(safeName, 1, Len(safeName) - 3)
           IN  /\ \A i \in 1..Len(stem) : stem[i] \in SafeChars
               /\ \A i \in 1..(Len(stem) - 1) : ~(stem[i] = "-" /\ stem[i + 1] = "-")
               /\ stem[1] # "-" /\ stem[Len(stem)] # "-"
               /\ stem = IF Sanitized(ChosenBase) = <<>> THEN <<"p", "a", "g", "e">>
                         ELSE Sanitized(ChosenBase)

----------------------------------------------------------------------------
(* BaseScraper.discover_doc_urls and BaseScraper.run                        *)

\* what a discovery function gives: it raises DiscoveryError, or returns
\* None or a list
Outcome(raised, result) == [raised |-> raised, result |-> result]
NoOutcome == Outcome(FALSE, NoList)

\* the arguments discover_doc_urls passes to discover_via_crawl
CrawlMaxDepth == 2
CrawlMaxPages == 50

DiscoveryCall(fn, max_depth, max_pages) ==
    [fn |-> fn, max_depth |-> max_depth, max_pages |-> max_pages]
SitemapCall == DiscoveryCall("discover_sitemap", 0, 0)
CrawlCall == DiscoveryCall("discover_via_crawl", CrawlMaxDepth, CrawlMaxPages)

\* the sitemap test that takes only None for "no sitemap"
SitemapUsableNotNone(result) == result.found

\* "if urls:" on what discover_sitemap returned
SitemapUsable(result) == result.found /\ result.urls # <<>>

\* the lists the discovery functions return in the model
DiscoveredLists == {<<UrlA>>, <<UrlB, UrlASlash, UrlA>>, <<UrlWA>>}
SitemapOutcomes ==
    {Outcome(TRUE, NoList), Outcome(FALSE, NoList), Outcome(FALSE, SomeList(<<>>))}
    \cup {Outcome(FALSE, SomeList(l)) : l \in DiscoveredLists}
\* discover_via_crawl raises rather than return an empty list
CrawlOutcomes ==
    {Outcome(TRUE, NoList)} \cup {Outcome(FALSE, SomeList(l)) : l \in DiscoveredLists}

RunIdle ==
    /\ runPc = "idle"
    /\ skip_offerings = FALSE
    /\ skip_docs = FALSE
    /\ run_keep_local = FALSE
    /\ csv_path = FALSE
    /\ docs_count = 0
    /\ runError = "none"
    /\ discoveryCalls = <<>>
    /\ sitemapResult = NoOutcome
    /\ finalizeCalls = <<>>

\* BaseScraper.__init__ on an empty output directory: the archive is built
ScraperConstructed ==
    /\ cacheJson = NoDir
    /\ cacheCorrupt = FALSE
    /\ zipCorrupt = FALSE
    /\ zip = NoDir
    /\ docs = Dir(EmptyMap)
    /\ alive = TRUE
    /\ cache = EmptyMap
    /\ lastOp = "construct"
    /\ lastWrite = NoWrite
    /\ runWrites = EmptyMap
    /\ crashed = EmptyMap
    /\ origin = EmptyMap

\* run(skip_offerings, skip_docs, keep_local) is called
RunInit ==
    /\ runPc = "offerings"
    /\ skip_offerings \in BOOLEAN
    /\ skip_docs \in BOOLEAN
    /\ run_keep_local \in BOOLEAN
    /\ csv_path = FALSE
    /\ docs_count = 0
    /\ runError = "none"
    /\ discoveryCalls = <<>>
    /\ sitemapResult = NoOutcome
    /\ finalizeCalls = <<>>

\* the first try block of run: scrape_offerings and write_offerings_csv
ScrapeOfferings(ok) ==
    /\ runPc = "offerings"
    /\ IF ok
       THEN /\ csv_path' = TRUE
            /\ runPc' = "sitemap"
            /\ UNCHANGED runError
       ELSE IF skip_offerings
       THEN /\ runPc' = "sitemap"
            /\ UNCHANGED <<csv_path, runError>>
       ELSE /\ runPc' = "raised"
            /\ runError' = "offerings"
            /\ UNCHANGED csv_path
    /\ UNCHANGED <<skip_offerings, skip_docs, run_keep_local, docs_count, discoveryCalls, sitemapResult, finalizeCalls>>

\* scrape_docs left by the DiscoveryError that discover_doc_urls let through
DiscoveryRaised ==
    /\ scrapePc' = "raised_discovery"
    /\ UNCHANGED <<urls, idx, written_count, error_count, outcomes, writeCalls, nScrapes, lastMessage>>
    /\ UNCHANGED archiveVars

\* scrape_docs calls discover_doc_urls, which calls discover_sitemap
DiscoverSitemapStep(outcome) ==
    /\ runPc = "sitemap"
    /\ discoveryCalls' = Append(discoveryCalls, SitemapCall)
    /\ sitemapResult' = outcome
    /\ IF outcome.raised
       THEN /\ DiscoveryRaised
            /\ runPc' = "scraping"
       ELSE IF SitemapUsable(outcome.result)
       THEN /\ ScrapeDocsStart(FilterDocUrlsOf(docs_base_url, provider_website, outcome.result.urls))
            /\ runPc' = "scraping"
       ELSE /\ runPc' = "crawl"
            /\ UNCHANGED <<scrapeVars, archiveVars>>
    /\ UNCHANGED <<skip_offerings, skip_docs, run_keep_local, csv_path, docs_count, runError, finalizeCalls>>

\* discover_doc_urls falls back to discover_via_crawl
DiscoverViaCrawlStep(outcome) ==
    /\ runPc = "crawl"
    /\ discoveryCalls' = Append(discoveryCalls, CrawlCall)
    /\ IF outcome.raised
       THEN DiscoveryRaised
       ELSE ScrapeDocsStart(FilterDocUrlsOf(docs_base_url, provider_website, outcome.result.urls))
    /\ runPc' = "scraping"
    /\ UNCHANGED <<skip_offerings, skip_docs, run_keep_local, csv_path, docs_count, runError, sitemapResult, finalizeCalls>>

\* the second try block of run, once scrape_docs has returned or raised
DocsOver ==
    /\ runPc = "scraping"
    /\ scrapePc \in {"returned", "raised_all_failed", "raised_rate_limited",
                     "raised_no_urls", "raised_discovery"}
    /\ IF scrapePc = "returned"
       THEN /\ docs_count' = written_count
            /\ runPc' = "finalize"
            /\ UNCHANGED runError
       ELSE IF skip_docs
       THEN /\ runPc' = "finalize"
            /\ UNCHANGED <<docs_count, runError>>
       ELSE /\ runPc' = "raised"
            /\ runError' = IF scrapePc = "raised_discovery" THEN "DiscoveryError"
                           ELSE "DocsScrapeError"
            /\ UNCHANGED docs_count
    /\ UNCHANGED <<skip_offerings, skip_docs, run_keep_local, csv_path, discoveryCalls, sitemapResult, finalizeCalls>>

\* "self.archive.finalize(keep_local=keep_local)" and the return
RunFinalize ==
    /\ runPc = "finalize"
    /\ Finalize(run_keep_local)
    /\ finalizeCalls' = Append(finalizeCalls, run_keep_local)
    /\ runPc' = "returned"
    /\ UNCHANGED <<skip_offerings, skip_docs, run_keep_local, csv_path, docs_count, runError, discoveryCalls, sitemapResult>>

RunOver == runPc \in {"returned", "raised"}

\* C11: when run ends, by returning or by raising, archive.finalize has been
\* called with the keep_local argument of the call.
C11_RunAlwaysFinalizes ==
    RunOver => finalizeCalls = <<run_keep_local>>

\* C12: when a discovery call raised DiscoveryError, run ends by raising it,
\* whatever the skip flags.
C12_DiscoveryErrorPropagates ==
    (RunOver /\ scrapePc = "raised_discovery") =>
        (runPc = "raised" /\ runError = "DiscoveryError")

\* discover_doc_urls is over: it returned to scrape_docs or raised
DiscoverDocUrlsOver == runPc \in {"scraping", "finalize", "returned", "raised"} /\ discoveryCalls # <<>>

\* C17: discover_sitemap is the first discovery call; discover_via_crawl is
\* called, with max_depth 2 and max_pages 50, exactly when discover_sitemap
\* returned None or an empty list; when discover_sitemap returned a non-empty
\* list, discover_doc_urls returns that list filtered, even if empty.
C17_SitemapFirstCrawlFallback ==
    /\ discoveryCalls # <<>> => discoveryCalls[1] = SitemapCall
    /\ \A i \in 2..Len(discoveryCalls) :
          /\ i = 2
          /\ discoveryCalls[i] = DiscoveryCall("discover_via_crawl", 2, 50)
          /\ ~sitemapResult.raised
          /\ (~sitemapResult.result.found \/ sitemapResult.result.urls = <<>>)
    /\ DiscoverDocUrlsOver =>
          IF sitemapResult.raised THEN Len(discoveryCalls) = 1
          ELSE IF sitemapResult.result.found /\ sitemapResult.result.urls # <<>>
          THEN /\ Len(discoveryCalls) = 1
               /\ urls = FilterLoop(sitemapResult.result.urls, SiteD, {}, <<>>)
          ELSE Len(discoveryCalls) = 2

\* C17 witness: discover_sitemap returned an empty list and the crawl was
\* called; and, in another call, a sitemap list that filters to nothing was
\* returned without any crawl.
C17_WitnessCrawl ==
    /\ sitemapResult = Outcome(FALSE, SomeList(<<>>))
    /\ Len(discoveryCalls) = 2
    /\ scrapePc = "loop"
C17_WitnessNoCrawl ==
    /\ sitemapResult = Outcome(FALSE, SomeList(<<UrlWA>>))
    /\ runPc = "returned"
    /\ urls = <<>>
    /\ Len(discoveryCalls) = 1

----------------------------------------------------------------------------
(* Claims on discover_sitemap                                               *)

\* the response carries a body that the child loop parses
Usable(resp) == ~resp.raises /\ resp.status_code = 200 /\ ~resp.body.marker

\* the URLs parsed from the responses of the children, in child order
RECURSIVE ConcatParsed(_)
ConcatParsed(log) ==
    IF log = <<>> THEN <<>>
    ELSE (IF Usable(log[1]) THEN ParseSitemapXml(log[1].body) ELSE <<>>)
         \o ConcatParsed(Tail(log))

\* the response is a rate limit or a server error
Fatal(resp) ==
    /\ ~resp.raises
    /\ \/ resp.status_code = 429
       \/ resp.status_code >= 500
       \/ (resp.status_code = 200 /\ resp.body.marker)

\* C9: when discover_sitemap returns after a candidate parsed to a non-empty
\* URL list, then, if every URL of that list ends in ".xml", every child was
\* fetched and the value returned is the concatenation, in child order, of the
\* URLs parsed from the children; and if the list is mixed, no child was
\* fetched and the value returned is the parsed list itself.
C9_IndexReturnsConcatenation ==
    (discPc = "returned" /\ firstList # <<>>) =>
        IF IsSitemapIndex(firstList)
        THEN /\ Len(childLog) = Len(firstList)
             /\ discResult = SomeList(ConcatParsed(childLog))
        ELSE /\ childLog = <<>>
             /\ discResult = SomeList(firstList)

\* C10: discover_sitemap never returns (a list or None) after a fetch of the
\* chain, of a candidate, of the sitemap named by robots.txt or of a child
\* sitemap, was answered with 429, with a 200 body carrying the rate-limit
\* marker, or with a 5xx status.
C10_FatalFetchRaises ==
    discPc = "returned" =>
        /\ \A i \in 1..Len(candidateLog) : ~Fatal(candidateLog[i])
        /\ \A i \in 1..Len(childLog) : ~Fatal(childLog[i])

\* the order of the candidate paths
CandidateOrder == <<"/sitemap.xml", "/sitemap_index.xml", "/sitemap1.xml", "/robots.txt">>

\* a step fetched a candidate
CandidateFetched == Len(pathLog') = Len(pathLog) + 1

\* the step fetched a sitemap: the candidate itself, or for /robots.txt the
\* first sitemap it names (logged after the answer of /robots.txt)
SitemapFetched ==
    /\ CandidateFetched
    /\ pathLog'[Len(pathLog')] = "/robots.txt" => Len(candidateLog') = Len(candidateLog) + 2

\* the answer to the fetch made last in the step
LastAnswer == candidateLog'[Len(candidateLog')]

\* the answer is missing, unreachable, unparseable or empty
NothingIn(resp) ==
    \/ resp.raises
    \/ resp.status_code \notin {200, 429} /\ resp.status_code < 500
    \/ resp.status_code = 200 /\ ~resp.body.marker /\ ParseSitemapXml(resp.body) = <<>>

\* the answer holds a non-empty URL list
ListIn(resp) ==
    /\ ~resp.raises
    /\ resp.status_code = 200
    /\ ~resp.body.marker
    /\ ParseSitemapXml(resp.body) # <<>>

\* C26: the candidates are fetched in the order /sitemap.xml,
\* /sitemap_index.xml, /sitemap1.xml, /robots.txt; once one has yielded a
\* non-empty URL list no later candidate is fetched; a candidate that is
\* missing, unreachable, unparseable or empty is passed over for the next.
C26_CandidatesInOrderUntilFirstList ==
    [][/\ pathLog' = SubSeq(CandidateOrder, 1, Len(pathLog'))
       /\ firstList # <<>> => pathLog' = pathLog
       /\ (SitemapFetched /\ ListIn(LastAnswer))
            => /\ firstList' = ParseSitemapXml(LastAnswer.body)
               /\ discPc' \in {"children", "returned"}
       /\ (CandidateFetched /\ (IF SitemapFetched THEN NothingIn(LastAnswer) ELSE ~Fatal(LastAnswer)))
            => /\ firstList' = <<>>
               /\ discPc' = "candidates"
               /\ pathIdx' = Len(pathLog') + 1]_vars

\* C26 witness: /sitemap.xml was unreachable, /sitemap_index.xml missing,
\* /sitemap1.xml held page URLs, and the call returned them without a fetch
\* of /robots.txt.
C26_Witness ==
    /\ discPc = "returned"
    /\ pathLog = SubSeq(CandidateOrder, 1, 3)
    /\ candidateLog[1].raises
    /\ candidateLog[2].status_code = 404
    /\ discResult = SomeList(firstList)
    /\ firstList # <<>>

\* C27: discover_sitemap returns None only after all four candidates were
\* fetched and none of them led to a URL.
C27_NoneOnlyAfterAllCandidates ==
    (discPc = "returned" /\ ~discResult.found)
        => /\ pathLog = CandidateOrder
           /\ firstList = <<>>

----------------------------------------------------------------------------
(* Claims on DocsArchive                                                    *)

\* the contents has_changed is asked about: those written and one never written
QueryContents == Contents \cup {<<"y">>}

ZipNames == IF zip.exists THEN DOMAIN zip.files ELSE {}
CacheFilenames == {cache[u].filename : u \in DOMAIN cache}

\* C1: write(u, c, t) immediately followed by read(u) returns exactly c, and
\* after a following finalize(keep_local=False) read(u) on the same instance
\* still returns c, taken from docs.zip (the staging directory is gone).
C1_RoundTrip ==
    /\ lastOp = "write" => Read(lastWrite.url) = Some(lastWrite.content)
    /\ (lastOp = "finalize" /\ lastWrite.done) =>
            /\ ~docs.exists
            /\ Read(lastWrite.url) = Some(lastWrite.content)

\* C2: for a cached URL whose entry carries an ETag E1, has_changed(url, E, c)
\* is False for E = E1 and True for every other ETag E, whatever the content c.
C2_EtagPrecedence ==
    \A u \in DOMAIN cache : Truthy(cache[u].etag) =>
        \A e \in Etags, c \in QueryContents : Truthy(e) =>
            (HasChanged(u, e, c) <=> e # cache[u].etag)

\* C2 witness: an entry carrying E1; a content other than the stored one is
\* reported unchanged under E1, and the stored content changed under E2.
C2_Witness ==
    \E u \in DOMAIN cache :
        /\ cache[u].etag = Etag("E1")
        /\ \E c \in QueryContents :
              /\ c # origin[cache[u].content_hash]
              /\ ~HasChanged(u, Etag("E1"), c)
        /\ HasChanged(u, Etag("E2"), origin[cache[u].content_hash])

\* C3: for a cached URL, when the stored entry or the fetch lacks an ETag,
\* has_changed is False exactly when the content equals the content whose hash
\* is stored; for a URL absent from the cache it is True.
C3_HashFallback ==
    \A u \in Urls, e \in Etags, c \in QueryContents :
        IF u \notin DOMAIN cache THEN HasChanged(u, e, c)
        ELSE (~Truthy(e) \/ ~Truthy(cache[u].etag)) =>
                (HasChanged(u, e, c) <=> c # origin[cache[u].content_hash])

\* C3 witness: one URL cached without ETag and compared by content both ways,
\* the other URL absent from the cache.
C3_Witness ==
    /\ alive
    /\ \E u \in DOMAIN cache :
          /\ ~Truthy(cache[u].etag)
          /\ ~HasChanged(u, NoEtag, origin[cache[u].content_hash])
          /\ \E c \in QueryContents : HasChanged(u, Etag("E1"), c)
    /\ \E v \in Urls : v \notin DOMAIN cache /\ HasChanged(v, NoEtag, <<"x">>)

\* C4: after finalize() the files in docs.zip are exactly the filenames the
\* entries of the current cache reference.
C4_ZipMatchesCache ==
    lastOp \in {"finalize", "finalize_keep"} => ZipNames = CacheFilenames

\* C5: writes completed by a process that stopped before finalize are all there
\* for a new DocsArchive on the same directory: read(u) returns the written
\* content and has_changed(u, e, c) is False.
C5_CrashKeepsWrites ==
    lastOp = "construct" =>
        \A u \in DOMAIN crashed :
            /\ Read(u) = Some(crashed[u].content)
            /\ ~HasChanged(u, crashed[u].etag, crashed[u].content)

\* C18: constructing a DocsArchive while cache.json cannot be parsed raises
\* and resets nothing: cache.json, docs.zip and docs/ stay as they were and
\* there is no instance, so none with an empty cache.
C18_CorruptCacheIsFatal ==
    [][(~alive /\ cacheCorrupt /\ lastOp' \in {"construct", "construct_raised"})
        => /\ lastOp' = "construct_raised"
           /\ ~alive'
           /\ cacheJson' = cacheJson
           /\ cacheCorrupt'
           /\ zip' = zip
           /\ docs' = docs]_vars

\* C18 witness: a construction has raised on a directory that holds a
\* docs.zip and a staging directory with a file from earlier runs.
C18_Witness ==
    /\ lastOp = "construct_raised"
    /\ cacheCorrupt
    /\ ~alive
    /\ zip.exists
    /\ docs.exists /\ DOMAIN docs.files # {}

\* C19: a finalize call made while docs/ is absent or empty changes nothing:
\* no docs.zip appears, an existing docs.zip, cache.json, the cache of the
\* instance and docs/ stay as they were, and the call returns.
C19_FinalizeEmptyIsNoOp ==
    [][(alive /\ (~docs.exists \/ DOMAIN docs.files = {})
        /\ lastOp' \in {"finalize", "finalize_keep"})
        => /\ zip' = zip
           /\ docs' = docs
           /\ cacheJson' = cacheJson
           /\ cacheCorrupt' = cacheCorrupt]_vars

\* C19 witness: finalize was called on an instance whose docs/ is absent,
\* after an earlier finalize had packed docs.zip and removed it.
C19_Witness ==
    /\ lastOp = "finalize"
    /\ alive
    /\ ~docs.exists
    /\ zip.exists
    /\ DOMAIN cache # {}

\* the entry a write puts in the cache differs from the entry "old" in the
\* way has_changed compares them: by ETag when both carry one, else by hash
EntryDiffers(old, new) ==
    IF Truthy(old.etag) /\ Truthy(new.etag)
    THEN old.etag # new.etag
    ELSE old.content_hash # new.content_hash

\* a step of the scrape_docs loop made a write call for the URL at idx, and
\* that URL was absent from the cache or its new version differs from the cached
WriteWasGated ==
    writeCalls' = writeCalls + 1
    => LET url == urls[idx]
       IN  \/ url \notin DOMAIN cache
           \/ EntryDiffers(cache[url], cache'[url])

\* a step of the loop that found its URL unchanged wrote nothing, touched
\* nothing of the archive and counted no failure
UnchangedIsSkipped ==
    (Len(outcomes') = Len(outcomes) + 1 /\ outcomes'[Len(outcomes')] = "unchanged")
    => /\ writeCalls' = writeCalls
       /\ error_count' = error_count
       /\ written_count' = written_count
       /\ cache' = cache /\ cacheJson' = cacheJson /\ docs' = docs

\* number of loop iterations of the current call that ended as "kind"
CountOutcomes(kind) == Cardinality({i \in 1..Len(outcomes) : outcomes[i] = kind})

\* C20 as stated: write is called only for a URL has_changed found changed, an
\* unchanged URL is neither written nor a failure, and the value scrape_docs
\* returns equals the number of write calls it made.
C20_ReturnsWriteCalls ==
    [][/\ WriteWasGated
       /\ UnchangedIsSkipped
       /\ (scrapePc' = "returned" => written_count' = writeCalls')]_vars

\* C20 amended: write is called only for a URL has_changed found changed, an
\* unchanged URL is neither written nor a failure, and the value scrape_docs
\* returns equals the number of write calls that returned; a write call that
\* raised is counted as a failure.
C20_ReturnsCompletedWrites ==
    [][/\ WriteWasGated
       /\ UnchangedIsSkipped
       /\ (scrapePc' = "returned"
            => /\ written_count' = CountOutcomes("written")'
               /\ writeCalls' = CountOutcomes("written")' + CountOutcomes("write_raised")'
               /\ error_count' >= CountOutcomes("write_raised")')]_vars

\* C20 witness: a call on an archive that already holds both URLs has
\* returned 1 after writing the changed URL and skipping the unchanged one.
C20_Witness ==
    /\ scrapePc = "returned"
    /\ outcomes = <<"written", "unchanged">>
    /\ written_count = 1
    /\ writeCalls = 1
    /\ error_count = 0
    /\ nScrapes = 2

\* the directory "dir" holds the file the cache.json entry of url names, and
\* the content of that file hashes to the entry's content_hash
BackedIn(dir, url) ==
    LET entry == cacheJson.files[url]
    IN  /\ dir.exists
        /\ entry.filename \in DOMAIN dir.files
        /\ ContentHash(DecodeBytes(dir.files[entry.filename])) = entry.content_hash

\* C21: at every point, crashes inside a write included, every URL recorded
\* in cache.json names a file that exists in docs/ or in docs.zip and whose
\* content hashes to the content_hash of the entry.
C21_CacheJsonNeverAhead ==
    (cacheJson.exists /\ ~cacheCorrupt)
        => \A url \in DOMAIN cacheJson.files : BackedIn(docs, url) \/ BackedIn(zip, url)

\* the staged file the cache entry of url names: its bytes, or nothing
StagedFile(url) ==
    IF docs.exists /\ cache[url].filename \in DOMAIN docs.files
    THEN Some(docs.files[cache[url].filename])
    ELSE NoText

\* C22: a completed write(u, ...) leaves, for every other cached URL v, the
\* cache entry of v, the staged file of v and the value of read(v) as they were.
C22_WriteTouchesOnlyItsUrl ==
    [][lastOp' = "write"
        => \A v \in DOMAIN cache \ {lastWrite'.url} :
              /\ cache'[v] = cache[v]
              /\ StagedFile(v)' = StagedFile(v)
              /\ Read(v)' = Read(v)]_vars

\* C28: no two distinct cached URLs have cache entries with the same filename.
C28_FilenamesUniquePerUrl ==
    \A u \in DOMAIN cache, v \in DOMAIN cache :
        u # v => cache[u].filename # cache[v].filename

\* C23: on an instance, the set of cached URLs never shrinks; has_changed,
\* read and finalize leave the cache as it was; a write creates or replaces
\* the entry of one URL and leaves every other entry as it was.
C23_EntriesNeverDeleted ==
    [][(alive /\ alive')
        => /\ DOMAIN cache \subseteq DOMAIN cache'
           /\ lastOp' \in {"has_changed", "read", "finalize", "finalize_keep"} => cache' = cache
           /\ lastOp' \in {"write", "write_raised"}
                => \E u \in Urls :
                      /\ DOMAIN cache' = DOMAIN cache \cup {u}
                      /\ \A v \in DOMAIN cache \ {u} : cache'[v] = cache[v]]_vars

\* C23 witness: has_changed was called on an instance that holds two entries,
\* after finalize packed and removed the staging directory.
C23_Witness ==
    /\ alive
    /\ lastOp = "has_changed"
    /\ DOMAIN cache = Urls
    /\ zip.exists
    /\ ~docs.exists

\* the outcomes scrape_docs counts in error_count
CountedFailures == {"fetch_raised", "unsuccessful", "no_markdown", "write_raised"}

\* a step of the loop handled one URL
UrlHandled == Len(outcomes') = Len(outcomes) + 1

RateLimitSignal(message) ==
    /\ message.found
    /\ \/ Contains(message.text, <<"4", "2", "9">>)
       \/ Contains(ToLower(message.text), <<"r", "a", "t", "e">>)

\* C25: a fetch result that carries a rate-limit signal makes scrape_docs raise
\* at that URL, with nothing written and no failure counted for it, and no
\* URL after it is handled by that call.
C25_RateLimitIsFatal ==
    [][/\ (UrlHandled /\ RateLimitSignal(lastMessage'))
            => /\ scrapePc' = "raised_rate_limited"
               /\ error_count' = error_count
               /\ written_count' = written_count
               /\ writeCalls' = writeCalls
               /\ idx' = idx
               /\ cache' = cache /\ cacheJson' = cacheJson /\ docs' = docs /\ zip' = zip
       /\ scrapePc = "raised_rate_limited"
            => (outcomes' = outcomes \/ nScrapes' = nScrapes + 1)]_vars

\* C25 witness: of two discovered URLs the first was written, the second
\* carried "Rate limit" on a successful result, and the call raised there.
C25_Witness ==
    /\ scrapePc = "raised_rate_limited"
    /\ Len(urls) = 2
    /\ outcomes = <<"written", "rate_limited">>
    /\ lastMessage = Some(MsgRate)
    /\ error_count = 0

\* the scrape_docs call of the running process fetched every cached URL and
\* found each of them unchanged
AllCachedUnchanged ==
    /\ scrapePc = "returned"
    /\ Len(outcomes) = Len(urls)
    /\ {urls[i] : i \in 1..Len(urls)} = DOMAIN cache
    /\ \A i \in 1..Len(outcomes) : outcomes[i] = "unchanged"

\* C29: an instance constructed on a corrupted docs.zip starts with an empty
\* staging directory, and when its run has fetched every cached URL with
\* unchanged content, the finalize that follows rebuilds docs.zip: read(u)
\* returns content for every cached URL u.
C29_CorruptZipIsRebuilt ==
    [][/\ (~alive /\ alive' /\ zipCorrupt) => docs' = Dir(EmptyMap)
       /\ (alive /\ zipCorrupt /\ AllCachedUnchanged /\ lastOp' \in {"finalize", "finalize_keep"})
            => /\ ~zipCorrupt'
               /\ \A u \in DOMAIN cache' : Read(u)'.found /\ ~ReadRaises(u)']_vars

\* C30: a write that raises leaves the in-memory cache and cache.json as they
\* were, so has_changed gives for every URL, ETag and content the answer it
\* gave before the write.
C30_FailedWriteChangesNothing ==
    [][lastOp' = "write_raised"
        => /\ cache' = cache
           /\ cacheJson' = cacheJson
           /\ \A u \in Urls, e \in Etags, c \in Contents :
                 HasChanged(u, e, c)' = HasChanged(u, e, c)]_vars

----------------------------------------------------------------------------
(* Specifications                                                           *)

\* the archive under any sequence of constructions, writes, finalizes and stops
ArchiveSpecInit == ArchiveInit /\ ChunkIdle /\ ScrapeIdle /\ DiscIdle /\ FilterIdle /\ RunIdle /\ ParseIdle /\ SafeIdle
ArchiveSpecNext ==
    \/ Construct /\ UNCHANGED <<chunkVars, scrapeVars, discVars, filterVars, runVars, parseVars, safeVars>>
    \/ \E u \in Urls, c \in Contents, t \in Topics, e \in WriteEtags :
          Write(u, c, t, e) /\ UNCHANGED <<chunkVars, scrapeVars, discVars, filterVars, runVars, parseVars, safeVars>>
    \/ \E k \in BOOLEAN : Finalize(k) /\ UNCHANGED <<chunkVars, scrapeVars, discVars, filterVars, runVars, parseVars, safeVars>>
    \/ Stop /\ UNCHANGED <<chunkVars, scrapeVars, discVars, filterVars, runVars, parseVars, safeVars>>
ArchiveSpec == ArchiveSpecInit /\ [][ArchiveSpecNext]_vars

\* one call of chunk_markdown on every document and budget of the model
ChunkSpecInit == ChunkInit /\ ArchiveInit /\ ScrapeIdle /\ DiscIdle /\ FilterIdle /\ RunIdle /\ ParseIdle /\ SafeIdle
ChunkSpecNext == ChunkMarkdown /\ UNCHANGED <<archiveVars, scrapeVars, discVars, filterVars, runVars, parseVars, safeVars>>
ChunkSpec == ChunkSpecInit /\ [][ChunkSpecNext]_vars

\* scrape_docs calls of a scraper on its archive, each followed or not by
\* finalize, over several processes on the same output directory
ScrapeSpecInit == ArchiveInit /\ ChunkIdle /\ ScrapeIdle /\ DiscIdle /\ FilterIdle /\ RunIdle /\ ParseIdle /\ SafeIdle
ScrapeSpecNext ==
    \/ (scrapePc # "loop" /\ Construct /\ UNCHANGED <<chunkVars, scrapeVars, discVars, filterVars, runVars, parseVars, safeVars>>)
    \/ \E found \in UrlLists : ScrapeDocsStart(found) /\ UNCHANGED <<chunkVars, discVars, filterVars, runVars, parseVars, safeVars>>
    \/ \E result \in CrawlResults : ScrapeUrl(result) /\ UNCHANGED <<chunkVars, discVars, filterVars, runVars, parseVars, safeVars>>
    \/ ScrapeDocsEnd /\ UNCHANGED <<chunkVars, discVars, filterVars, runVars, parseVars, safeVars>>
    \/ \E k \in BOOLEAN :
          scrapePc # "loop" /\ Finalize(k) /\ UNCHANGED <<chunkVars, scrapeVars, discVars, filterVars, runVars, parseVars, safeVars>>
    \/ (scrapePc # "loop" /\ Stop /\ UNCHANGED <<chunkVars, scrapeVars, discVars, filterVars, runVars, parseVars, safeVars>>)
ScrapeSpec == ScrapeSpecInit /\ [][ScrapeSpecNext]_vars

\* one call of discover_sitemap against every sequence of responses of the model
DiscoverySpecInit == DiscInit /\ ArchiveInit /\ ChunkIdle /\ ScrapeIdle /\ FilterIdle /\ RunIdle /\ ParseIdle /\ SafeIdle
DiscoverySpecNext ==
    \/ \E resp \in Responses, resp2 \in Responses :
          /\ TryCandidate(resp, resp2)
          /\ UNCHANGED <<archiveVars, chunkVars, scrapeVars, filterVars, runVars, parseVars, safeVars>>
    \/ NoSitemapFound /\ UNCHANGED <<archiveVars, chunkVars, scrapeVars, filterVars, runVars, parseVars, safeVars>>
    \/ \E resp \in Responses : FetchChild(resp) /\ UNCHANGED <<archiveVars, chunkVars, scrapeVars, filterVars, runVars, parseVars, safeVars>>
    \/ ChildrenDone /\ UNCHANGED <<archiveVars, chunkVars, scrapeVars, filterVars, runVars, parseVars, safeVars>>
DiscoverySpec == DiscoverySpecInit /\ [][DiscoverySpecNext]_vars

\* one call of _filter_doc_urls on every list and configuration of the model
FilterSpecInit == FilterInit /\ ArchiveInit /\ ChunkIdle /\ ScrapeIdle /\ DiscIdle /\ RunIdle /\ ParseIdle /\ SafeIdle
FilterSpecNext == FilterDocUrls /\ UNCHANGED <<archiveVars, chunkVars, scrapeVars, discVars, runVars, parseVars, safeVars>>
FilterSpec == FilterSpecInit /\ [][FilterSpecNext]_vars

\* one call of run, with any flags, on a scraper built on an empty directory
RunSpecInit == RunInit /\ ScraperConstructed /\ ChunkIdle /\ ScrapeIdle /\ DiscIdle /\ FilterIdle /\ ParseIdle /\ SafeIdle
RunSpecNext ==
    \/ \E ok \in BOOLEAN :
          ScrapeOfferings(ok) /\ UNCHANGED <<archiveVars, chunkVars, scrapeVars, discVars, filterVars, parseVars, safeVars>>
    \/ \E outcome \in SitemapOutcomes :
          DiscoverSitemapStep(outcome) /\ UNCHANGED <<chunkVars, discVars, filterVars, parseVars, safeVars>>
    \/ \E outcome \in CrawlOutcomes :
          DiscoverViaCrawlStep(outcome) /\ UNCHANGED <<chunkVars, discVars, filterVars, parseVars, safeVars>>
    \/ \E result \in CrawlResults :
          runPc = "scraping" /\ ScrapeUrl(result) /\ UNCHANGED <<chunkVars, discVars, filterVars, runVars, parseVars, safeVars>>
    \/ (runPc = "scraping" /\ ScrapeDocsEnd /\ UNCHANGED <<chunkVars, discVars, filterVars, runVars, parseVars, safeVars>>)
    \/ DocsOver /\ UNCHANGED <<archiveVars, chunkVars, scrapeVars, discVars, filterVars, parseVars, safeVars>>
    \/ RunFinalize /\ UNCHANGED <<chunkVars, scrapeVars, discVars, filterVars, parseVars, safeVars>>
RunSpec == RunSpecInit /\ [][RunSpecNext]_vars

\* one call of parse_sitemap_xml on every text of the model
ParseSpecInit == ParseInit /\ ArchiveInit /\ ChunkIdle /\ ScrapeIdle /\ DiscIdle /\ FilterIdle /\ RunIdle /\ SafeIdle
ParseSpecNext ==
    ParseSitemapXmlCall /\ UNCHANGED <<archiveVars, chunkVars, scrapeVars, discVars, filterVars, runVars, safeVars>>
ParseSpec == ParseSpecInit /\ [][ParseSpecNext]_vars

\* one call of _safe_filename on every url and topic of the model
SafeSpecInit == SafeInit /\ ArchiveInit /\ ChunkIdle /\ ScrapeIdle /\ DiscIdle /\ FilterIdle /\ RunIdle /\ ParseIdle
SafeSpecNext ==
    SafeFilenameCall /\ UNCHANGED <<archiveVars, chunkVars, scrapeVars, discVars, filterVars, runVars, parseVars>>
SafeSpec == SafeSpecInit /\ [][SafeSpecNext]_vars

\* the archive as in ArchiveSpec, with cache.json liable to be left unparseable
ArchiveFaultSpecNext ==
    \/ ArchiveSpecNext
    \/ CorruptCacheJson /\ UNCHANGED <<chunkVars, scrapeVars, discVars, filterVars, runVars, parseVars, safeVars>>
ArchiveFaultSpec == ArchiveSpecInit /\ [][ArchiveFaultSpecNext]_vars

\* the archive as in ArchiveSpec, with processes liable to be killed inside write
ArchiveCrashSpecNext ==
    \/ ArchiveSpecNext
    \/ \E u \in Urls, c \in Contents, t \in Topics, e \in WriteEtags :
          WriteInterrupted(u, c, t, e) /\ UNCHANGED <<chunkVars, scrapeVars, discVars, filterVars, runVars, parseVars, safeVars>>
ArchiveCrashSpec == ArchiveSpecInit /\ [][ArchiveCrashSpecNext]_vars

\* the archive as in ArchiveSpec, with the has_changed and read calls as steps
ArchiveCallsSpecNext ==
    \/ ArchiveSpecNext
    \/ \E u \in Urls, e \in Etags, c \in Contents :
          HasChangedCall(u, e, c) /\ UNCHANGED <<chunkVars, scrapeVars, discVars, filterVars, runVars, parseVars, safeVars>>
    \/ \E u \in Urls :
          ReadCall(u) /\ UNCHANGED <<chunkVars, scrapeVars, discVars, filterVars, runVars, parseVars, safeVars>>
ArchiveCallsSpec == ArchiveSpecInit /\ [][ArchiveCallsSpecNext]_vars

\* scrape_docs calls as in ScrapeSpec, with docs.zip liable to be left
\* unreadable between two processes
HealSpecNext ==
    \/ (scrapePc # "loop" /\ NewProcess /\ UNCHANGED <<chunkVars, discVars, filterVars, runVars, parseVars, safeVars>>)
    \/ \E found \in UrlLists : ScrapeDocsStart(found) /\ UNCHANGED <<chunkVars, discVars, filterVars, runVars, parseVars, safeVars>>
    \/ \E result \in CrawlResults : ScrapeUrl(result) /\ UNCHANGED <<chunkVars, discVars, filterVars, runVars, parseVars, safeVars>>
    \/ ScrapeDocsEnd /\ UNCHANGED <<chunkVars, discVars, filterVars, runVars, parseVars, safeVars>>
    \/ \E k \in BOOLEAN :
          scrapePc # "loop" /\ Finalize(k) /\ UNCHANGED <<chunkVars, scrapeVars, discVars, filterVars, runVars, parseVars, safeVars>>
    \/ (scrapePc # "loop" /\ Stop /\ UNCHANGED <<chunkVars, scrapeVars, discVars, filterVars, runVars, parseVars, safeVars>>)
    \/ CorruptZip /\ UNCHANGED <<chunkVars, scrapeVars, discVars, filterVars, runVars, parseVars, safeVars>>
HealSpec == ScrapeSpecInit /\ [][HealSpecNext]_vars

====
